---- MODULE Spec2Model ----
(***************************************************************************)
(* College_daddy: the client-side theme manager and mobile menu, the       *)
(* notes-metadata maintenance script (update-file-metadata.js) and the     *)
(* file watcher that launches it.                                          *)
(*                                                                         *)
(* Each component is an independent script with no shared runtime, so each *)
(* has a specification of its own over the same variables; the variables   *)
(* of the other components stay at their initial values.                   *)
(***************************************************************************)
EXTENDS Integers, Sequences, FiniteSets, TLC

VARIABLES
    \* ---- browser environment of the theme manager
    hour,               \* new Date().getHours()
    lsTheme,            \* localStorage['theme'] (Null when the key is absent)
    lsAutoMode,         \* localStorage['themeAutoMode']
    lsReadOk,           \* FALSE: localStorage.getItem throws
    lsWriteOk,          \* FALSE: localStorage.setItem throws
    domToggle,          \* the document holds .theme-toggle with its .theme-icon
    \* ---- ThemeManager
    tmPc,               \* "none" before new ThemeManager(), "ready" after
    theme,              \* this.theme
    autoMode,           \* this.autoMode
    autoCheckInterval,  \* this.autoCheckInterval: 0 is null, 1 a live handle
    liveIntervals,      \* setInterval timers not yet cleared
    dataTheme,          \* documentElement's data-theme attribute
    transitioning,      \* documentElement has class theme-transitioning
    transitionTimers,   \* pending 300 ms class-removal timeouts
    themeIcon,          \* .theme-icon textContent
    toggleTitle,        \* .theme-toggle title attribute
    notification,       \* text of the last notification shown
    escaped,            \* an exception left a ThemeManager method
    hToggle,            \* setupToggleButton's listeners are on .theme-toggle
    \* ---- history of the theme manager (for relational properties)
    lastOp,             \* the ThemeManager operation that ran last at this hour
    prev,               \* memory and storage just before lastOp
    toggleRun,          \* consecutive toggleTheme calls so far (capped at 2)
    before2,            \* theme state before the first of two consecutive toggles
    \* ---- the long-press detection of setupToggleButton
    pressNow,           \* milliseconds since the page was set up
    pressedAt,          \* per pointer: when its press began, NotPressed if up
    pressTimer,         \* the timer the variable pressTimer names
    leakedTimers,       \* due times of pending timers no variable names
    lastFire,           \* what the last long-press timer to fire found
    gesture,            \* progress of a mouse long press followed by its click
    \* ---- document of the mobile menu
    domMenuButton,      \* the document holds .menu-button
    domNavLinks,        \* the document holds .nav-links
    domOverlay,         \* the document holds .nav-overlay
    navbarPending,      \* the navbar fetch has not completed yet
    navActive,          \* .nav-links has class active
    overlayActive,      \* .nav-overlay has class active
    ariaExpanded,       \* .menu-button aria-expanded attribute
    bodyOverflow,       \* document.body.style.overflow
    \* ---- MobileMenu
    menuPc,             \* "none" before new MobileMenu(), "constructed" after
    mmButton,           \* this.menuButton is an element (not null)
    mmNavLinks,         \* this.navLinks is an element (not null)
    initialized,        \* this.initialized
    hButton,            \* click listener on the menu button
    hOverlay,           \* click listener on the overlay
    hDocClick,          \* click listener on document
    hDocKey,            \* keydown listener on document
    menuThrew,          \* an exception left the constructor or a listener
    lastEvent,          \* the user event dispatched last to this MobileMenu
    navBefore,          \* whether .nav-links was active before that event
    \* ---- the maintenance script, update-file-metadata.js
    fsTree,             \* the entries under data/notes (ids of Entries)
    diskCatalog,        \* data/notes-data.json on disk
    diskAtStart,        \* data/notes-data.json as the run found it
    data,               \* the parsed catalog in memory
    existingPaths,      \* scanForNewFiles' set of known material paths
    visited,            \* entries scanDirectory has been through
    scriptPc,           \* "start", "scan", "refresh", "write", "done", "aborted"
    writeCount,         \* writeFileSync calls on the catalog so far
    refreshed,          \* the metadata refresh of lines 185-191 has run
    fmtIn,              \* a byte count handed to formatFileSize
    fmtOut,             \* what formatFileSize returned for it
    \* ---- the watcher, auto-update-watcher.js
    now,                \* seconds since the watcher started
    updateTimeout,      \* updateTimeout holds a timer handle
    timerPending,       \* that timer has neither fired nor been cleared
    timerDue,           \* when it is due
    checksRunning,      \* isAppRunning calls whose tasklist has not returned
    runsRunning,        \* update-file-metadata.js child processes running
    lastPdfEvent,       \* when the last PDF change was reported
    bursts,             \* the bursts of PDF changes so far, oldest first
    checkOf,            \* the burst of each isAppRunning call in flight
    lastStep,           \* the watcher step taken last
    \* ---- the offline cache, offlineCache.js
    olStore,            \* localStorage: the text stored under each key
    olAccess,           \* "ok", "full" (setItem throws), "denied" (all throw)
    olLast              \* the call made last: what it was given, returned,
                        \* wrote (written) and found (before, loaded)

themeVars == <<hour, lsTheme, lsAutoMode, lsReadOk, lsWriteOk, domToggle, tmPc,
               theme, autoMode, autoCheckInterval, liveIntervals, dataTheme,
               transitioning, transitionTimers, themeIcon, toggleTitle,
               notification, escaped, hToggle, lastOp, prev, toggleRun,
               before2>>

menuVars == <<domMenuButton, domNavLinks, domOverlay, navbarPending, navActive,
              overlayActive, ariaExpanded, bodyOverflow, menuPc, mmButton,
              mmNavLinks, initialized, hButton, hOverlay, hDocClick, hDocKey,
              menuThrew, lastEvent, navBefore>>

scriptVars == <<fsTree, diskCatalog, diskAtStart, data, existingPaths, visited,
                scriptPc, writeCount, refreshed, fmtIn, fmtOut>>

watcherVars == <<now, updateTimeout, timerPending, timerDue, checksRunning,
                 runsRunning, lastPdfEvent, bursts, checkOf, lastStep>>

offlineVars == <<olStore, olAccess, olLast>>

pressVars == <<pressNow, pressedAt, pressTimer, leakedTimers, lastFire, gesture>>

vars == <<themeVars, pressVars, menuVars, scriptVars, watcherVars,
          offlineVars>>

notThemeVars == <<pressVars, menuVars, scriptVars, watcherVars, offlineVars>>
notMenuVars == <<themeVars, pressVars, scriptVars, watcherVars, offlineVars>>
notScriptVars == <<themeVars, pressVars, menuVars, watcherVars, offlineVars>>
notWatcherVars == <<themeVars, pressVars, menuVars, scriptVars, offlineVars>>
notPressVars == <<menuVars, scriptVars, watcherVars, offlineVars>>
notOfflineVars == <<themeVars, pressVars, menuVars, scriptVars, watcherVars>>

-----------------------------------------------------------------------------
(* Bounds of the model *)

\* pending theme-transitioning removal timers tracked at once
MaxPending == 1

\* entries in the notes tree of one run
MaxFiles == 3

\* the largest byte count handed to formatFileSize on its own
MaxBytes == 1100

\* child processes of one kind the watcher has running at once
MaxProcesses == 2

\* seconds of watcher time
MaxSeconds == 6

\* ticks of press time, of half the long-press delay each
MaxPressTicks == 3

\* pending long-press timers that no variable names any more
MaxLeaked == 1

(* Program constants *)

HoursPerDay == 24
DarkFromHour == 18
LightFromHour == 6
LongPressMs == 1000

-----------------------------------------------------------------------------
(* Values *)

\* JavaScript null / an absent localStorage key / an absent attribute
Null == "<null>"

\* what localStorage may hold under 'theme' when the page loads
StoredThemes == {Null, "", "light", "dark", "blue"}

\* what localStorage may hold under 'themeAutoMode' when the page loads
StoredAutoModes == {Null, "true", "false", "yes"}

\* JavaScript truthiness of a string-or-null value
Truthy(v) == v # Null /\ v # ""

\* Boolean.prototype.toString
BoolToString(b) == IF b THEN "true" ELSE "false"

-----------------------------------------------------------------------------
(* Strings the maintenance script takes apart are sequences of             *)
(* one-character strings: <<"a", "b">> is the string "ab".                *)

\* String.prototype.indexOf, from 1: the first position of sub in s, else 0
IndexOf(s, sub) ==
    LET hits == {i \in 1 .. (Len(s) - Len(sub) + 1) :
                    SubSeq(s, i, i + Len(sub) - 1) = sub}
    IN IF hits = {} THEN 0 ELSE CHOOSE i \in hits : \A j \in hits : i <= j

Includes(s, sub) == IndexOf(s, sub) # 0

StartsWith(s, p) == Len(p) <= Len(s) /\ SubSeq(s, 1, Len(p)) = p

EndsWith(s, p) == Len(p) <= Len(s) /\ SubSeq(s, Len(s) - Len(p) + 1, Len(s)) = p

\* String.prototype.substring(n): s without its first n characters
Substring(s, n) == SubSeq(s, n + 1, Len(s))

\* String.prototype.split
RECURSIVE Split(_, _)
Split(s, sep) ==
    LET i == IndexOf(s, sep) IN
    IF i = 0 THEN <<s>>
    ELSE <<SubSeq(s, 1, i - 1)>> \o Split(SubSeq(s, i + Len(sep), Len(s)), sep)

\* Array.prototype.join, and path.join of clean segments
RECURSIVE Join(_, _)
Join(parts, sep) ==
    IF Len(parts) = 0 THEN <<>>
    ELSE IF Len(parts) = 1 THEN parts[1]
    ELSE parts[1] \o sep \o Join(Tail(parts), sep)

UpperCase == <<"A", "B", "C", "D", "E", "F", "G", "H", "I", "J", "K", "L", "M",
               "N", "O", "P", "Q", "R", "S", "T", "U", "V", "W", "X", "Y", "Z">>

LowerCase == <<"a", "b", "c", "d", "e", "f", "g", "h", "i", "j", "k", "l", "m",
               "n", "o", "p", "q", "r", "s", "t", "u", "v", "w", "x", "y", "z">>

LowerChar(c) ==
    IF \E i \in 1 .. Len(UpperCase) : UpperCase[i] = c
    THEN LowerCase[CHOOSE i \in 1 .. Len(UpperCase) : UpperCase[i] = c]
    ELSE c

\* String.prototype.toLowerCase
ToLowerCase(s) == [i \in 1 .. Len(s) |-> LowerChar(s[i])]

DigitChars == <<"0", "1", "2", "3", "4", "5", "6", "7", "8", "9">>

IsDigit(c) == \E i \in 1 .. Len(DigitChars) : DigitChars[i] = c

DigitValue(c) == (CHOOSE i \in 1 .. Len(DigitChars) : DigitChars[i] = c) - 1

\* JavaScript NaN, which is === to no semester id
NaN == -1

\* parseInt(s): the number its leading digits spell, NaN when it has none
RECURSIVE ParseDigits(_, _)
ParseDigits(s, acc) ==
    IF Len(s) = 0 \/ ~IsDigit(s[1]) THEN acc
    ELSE ParseDigits(Tail(s), acc * 10 + DigitValue(s[1]))

ParseInt(s) == IF Len(s) = 0 \/ ~IsDigit(s[1]) THEN NaN ELSE ParseDigits(s, 0)

\* JavaScript undefined, as the text a template string renders it
Undefined == <<"u", "n", "d", "e", "f", "i", "n", "e", "d">>

\* array[i] of a JavaScript array, from 0: undefined past the end
At(arr, i) == IF i >= 0 /\ i < Len(arr) THEN arr[i + 1] ELSE Undefined

-----------------------------------------------------------------------------
(* formatFileSize *)

FileSizeK == 1024

SizeUnits == <<"Bytes", "KB", "MB", "GB">>

RECURSIVE Pow(_, _)
Pow(b, e) == IF e = 0 THEN 1 ELSE b * Pow(b, e - 1)

\* Math.floor(Math.log(bytes) / Math.log(k)) for bytes >= 1
RECURSIVE FloorLog(_, _)
FloorLog(bytes, k) == IF bytes < k THEN 0 ELSE 1 + FloorLog(bytes \div k, k)

\* Number.prototype.toString of a non-negative integer
RECURSIVE IntToString(_)
IntToString(n) ==
    IF n < 10 THEN DigitChars[n + 1]
    ELSE IntToString(n \div 10) \o DigitChars[(n % 10) + 1]

\* Number.prototype.toString of h / 100, h a non-negative count of hundredths
HundredthsToString(h) ==
    LET whole == h \div 100
        frac == h % 100
    IN IF frac = 0 THEN IntToString(whole)
       ELSE IF frac % 10 = 0
            THEN IntToString(whole) \o "." \o DigitChars[(frac \div 10) + 1]
            ELSE IntToString(whole) \o "." \o DigitChars[(frac \div 10) + 1]
                                     \o DigitChars[(frac % 10) + 1]

\* formatFileSize dividing by 1000 for 1024
formatFileSize_k1000(bytes) ==
    IF bytes = 0 THEN "0 Bytes"
    ELSE LET i == FloorLog(bytes, 1000)
             d == Pow(1000, i)
         IN HundredthsToString((2 * 100 * bytes + d) \div (2 * d)) \o " "
              \o (IF i < Len(SizeUnits) THEN SizeUnits[i + 1] ELSE "undefined")

(* formatFileSize(bytes): Math.round(bytes / k^i * 100) / 100 + ' ' +      *)
(* sizes[i], in exact arithmetic (Math.round rounds halves up)             *)
formatFileSize(bytes) ==
    IF bytes = 0 THEN "0 Bytes"
    ELSE LET i == FloorLog(bytes, FileSizeK)
             d == Pow(FileSizeK, i)
         IN HundredthsToString((2 * 100 * bytes + d) \div (2 * d)) \o " "
              \o (IF i < Len(SizeUnits) THEN SizeUnits[i + 1] ELSE "undefined")

-----------------------------------------------------------------------------
(* ThemeManager: storage accessors.  Each returns what the method returns  *)
(* or stores, and whether an exception left the method (threw).            *)

getStoredTheme ==
    IF lsReadOk THEN [val |-> lsTheme, threw |-> FALSE]
    ELSE [val |-> Null, threw |-> FALSE]              \* catch: return null

\* setStoredTheme without its try/catch
setStoredTheme_uncaught(t) ==
    IF lsWriteOk THEN [store |-> t, threw |-> FALSE]
    ELSE [store |-> lsTheme, threw |-> TRUE]

setStoredTheme(t) ==
    IF lsWriteOk THEN [store |-> t, threw |-> FALSE]
    ELSE [store |-> lsTheme, threw |-> FALSE]         \* catch: console.warn

getAutoMode ==
    IF lsReadOk THEN [val |-> (lsAutoMode = "true"), threw |-> FALSE]
    ELSE [val |-> FALSE, threw |-> FALSE]             \* catch: return false

\* setAutoMode that stores nothing
setAutoMode_dropped(enabled) == [store |-> lsAutoMode, threw |-> FALSE]

setAutoMode(enabled) ==
    IF lsWriteOk THEN [store |-> BoolToString(enabled), threw |-> FALSE]
    ELSE [store |-> lsAutoMode, threw |-> FALSE]      \* catch: console.warn

\* getAutoTheme with the evening boundary off by one (hour > 18)
getAutoTheme_lateEvening(h) ==
    IF h > DarkFromHour \/ h < LightFromHour THEN "dark" ELSE "light"

\* Dark theme from 6 PM (18:00) to 6 AM (6:00)
getAutoTheme(h) ==
    IF h >= DarkFromHour \/ h < LightFromHour THEN "dark" ELSE "light"

\* updateToggleIcon, as a function of this.autoMode and this.theme
IconFor(am, t) ==
    IF ~domToggle THEN Null
    ELSE IF am THEN "auto"
    ELSE IF t = "dark" THEN "moon" ELSE "sun"

TitleFor(am) ==
    IF ~domToggle THEN Null
    ELSE IF am THEN "Auto theme enabled (long-press to disable)"
    ELSE "Toggle theme (long-press for auto mode)"

\* toggleTheme's choice of the new theme
NewTheme(t) == IF t = "dark" THEN "light" ELSE "dark"

\* the theme the constructor starts from: getStoredTheme() || getAutoTheme()
InitialTheme ==
    IF Truthy(getStoredTheme.val) THEN getStoredTheme.val ELSE getAutoTheme(hour)

\* setTimeout(..., 300) of applyTheme, tracked up to MaxPending timers
AddTransitionTimer(n) == IF n < MaxPending THEN n + 1 ELSE n

(* applyTheme(theme): sets this.theme and data-theme, stores the theme and *)
(* refreshes the icon.  am is this.autoMode at the time of the call.  An   *)
(* exception from setStoredTheme would skip updateToggleIcon.              *)
applyTheme(t, am) ==
    LET r == setStoredTheme(t) IN
    /\ theme' = t
    /\ dataTheme' = t
    /\ transitioning' = TRUE
    /\ transitionTimers' = AddTransitionTimer(transitionTimers)
    /\ lsTheme' = r.store
    /\ themeIcon' = IF r.threw THEN themeIcon ELSE IconFor(am, t)
    /\ toggleTitle' = IF r.threw THEN toggleTitle ELSE TitleFor(am)

\* memory and storage as an operation finds them
Snapshot == [theme |-> theme, dataTheme |-> dataTheme, autoMode |-> autoMode,
             lsTheme |-> lsTheme, lsAutoMode |-> lsAutoMode]

NoSnapshot == [theme |-> Null, dataTheme |-> Null, autoMode |-> FALSE,
               lsTheme |-> Null, lsAutoMode |-> Null]

ThemeState == [theme |-> theme, dataTheme |-> dataTheme, lsTheme |-> lsTheme]

NoThemeState == [theme |-> Null, dataTheme |-> Null, lsTheme |-> Null]

-----------------------------------------------------------------------------
(* ThemeManager: operations *)

InitTheme ==
    /\ hour \in 0 .. HoursPerDay - 1
    /\ lsTheme \in StoredThemes
    /\ lsAutoMode \in StoredAutoModes
    /\ lsReadOk \in BOOLEAN
    /\ lsWriteOk \in BOOLEAN
    /\ domToggle \in BOOLEAN
    /\ tmPc = "none"
    /\ theme = Null
    /\ autoMode = FALSE
    /\ autoCheckInterval = 0
    /\ liveIntervals = 0
    /\ dataTheme = Null
    /\ transitioning = FALSE
    /\ transitionTimers = 0
    /\ themeIcon = Null
    /\ toggleTitle = Null
    /\ notification = Null
    /\ escaped = FALSE
    /\ hToggle = FALSE
    /\ lastOp = "none"
    /\ prev = NoSnapshot
    /\ toggleRun = 0
    /\ before2 = NoThemeState

\* startAutoThemeCheck that sets no interval
StartedLive_none(n) == n

(* startAutoThemeCheck: one more setInterval timer is live *)
StartedLive(n) == n + 1

(* new ThemeManager(): the constructor and init().  applyTheme runs with   *)
(* the stored auto-mode flag; setupToggleButton, called at once because    *)
(* the document is past 'loading', adds its listeners when .theme-toggle   *)
(* exists; the polling interval starts when the auto-mode flag is set.     *)
NewThemeManager ==
    /\ tmPc = "none"
    /\ tmPc' = "ready"
    /\ autoMode' = getAutoMode.val
    /\ applyTheme(InitialTheme, getAutoMode.val)
    /\ hToggle' = domToggle
    /\ autoCheckInterval' = IF getAutoMode.val THEN 1 ELSE 0
    /\ liveIntervals' = IF getAutoMode.val THEN StartedLive(0) ELSE 0
    /\ escaped' = (escaped \/ getStoredTheme.threw \/ getAutoMode.threw
                     \/ setStoredTheme(InitialTheme).threw)
    /\ lastOp' = "construct"
    /\ prev' = Snapshot
    /\ toggleRun' = 0
    /\ before2' = NoThemeState
    /\ UNCHANGED <<hour, lsAutoMode, lsReadOk, lsWriteOk, domToggle, notification>>

(* The page is loaded again: a new document and a new ThemeManager over    *)
(* the same localStorage.  The timers of the old page are gone with it.    *)
Reload ==
    /\ tmPc = "ready"
    /\ LET t == InitialTheme
           am == getAutoMode.val
           r == setStoredTheme(t)
       IN /\ theme' = t
          /\ autoMode' = am
          /\ dataTheme' = t
          /\ transitioning' = TRUE
          /\ transitionTimers' = AddTransitionTimer(0)
          /\ lsTheme' = r.store
          /\ themeIcon' = IF r.threw THEN Null ELSE IconFor(am, t)
          /\ toggleTitle' = IF r.threw THEN Null ELSE TitleFor(am)
          /\ hToggle' = domToggle
          /\ autoCheckInterval' = IF am THEN 1 ELSE 0
          /\ liveIntervals' = IF am THEN StartedLive(0) ELSE 0
          /\ escaped' = (escaped \/ r.threw)
    /\ notification' = Null
    /\ lastOp' = "reload"
    /\ prev' = Snapshot
    /\ toggleRun' = 0
    /\ before2' = NoThemeState
    /\ UNCHANGED <<hour, lsAutoMode, lsReadOk, lsWriteOk, domToggle, tmPc>>

\* stopAutoThemeCheck that forgets the handle without clearing the interval
StoppedLive_kept == liveIntervals

(* stopAutoThemeCheck: clears the interval this.autoCheckInterval names *)
StoppedLive == IF autoCheckInterval # 0 THEN liveIntervals - 1 ELSE liveIntervals

(* toggleTheme(): a manual toggle disables auto mode, then flips the theme *)
ToggleTheme ==
    /\ tmPc = "ready"
    /\ LET sa == setAutoMode(FALSE) IN
       IF autoMode /\ sa.threw
       THEN \* the exception leaves toggleTheme after this.autoMode = false
            /\ autoMode' = FALSE
            /\ escaped' = TRUE
            /\ UNCHANGED <<lsAutoMode, autoCheckInterval, liveIntervals, theme,
                           dataTheme, transitioning, transitionTimers, lsTheme,
                           themeIcon, toggleTitle>>
       ELSE /\ autoMode' = FALSE
            /\ lsAutoMode' = IF autoMode THEN sa.store ELSE lsAutoMode
            /\ autoCheckInterval' = IF autoMode THEN 0 ELSE autoCheckInterval
            /\ liveIntervals' = IF autoMode THEN StoppedLive ELSE liveIntervals
            /\ applyTheme(NewTheme(theme), FALSE)
            /\ escaped' = (escaped \/ setStoredTheme(NewTheme(theme)).threw)
    /\ lastOp' = "toggleTheme"
    /\ prev' = Snapshot
    /\ toggleRun' = IF toggleRun < 2 THEN toggleRun + 1 ELSE 2
    /\ before2' = IF toggleRun >= 1 THEN [theme |-> prev.theme,
                                           dataTheme |-> prev.dataTheme,
                                           lsTheme |-> prev.lsTheme]
                  ELSE NoThemeState
    /\ UNCHANGED <<hour, lsReadOk, lsWriteOk, domToggle, tmPc, notification,
                   hToggle>>

(* toggleAutoMode(): flips auto mode; turning it on applies the time-of-day *)
(* theme at once and starts the polling interval, turning it off stops it.  *)
ToggleAutoMode ==
    /\ tmPc = "ready"
    /\ LET am == ~autoMode
           sa == setAutoMode(am)
           at == getAutoTheme(hour)
       IN
       /\ autoMode' = am
       /\ IF sa.threw
          THEN /\ escaped' = TRUE
               /\ UNCHANGED <<lsAutoMode, autoCheckInterval, liveIntervals, theme,
                              dataTheme, transitioning, transitionTimers, lsTheme,
                              themeIcon, toggleTitle, notification>>
          ELSE /\ lsAutoMode' = sa.store
               /\ IF am
                  THEN /\ applyTheme(at, am)
                       /\ escaped' = (escaped \/ setStoredTheme(at).threw)
                       /\ IF setStoredTheme(at).threw
                          THEN UNCHANGED <<autoCheckInterval, liveIntervals,
                                           notification>>
                          ELSE /\ autoCheckInterval' = 1     \* startAutoThemeCheck
                               /\ liveIntervals' = StartedLive(liveIntervals)
                               /\ notification' = "Auto theme enabled"
                  ELSE /\ autoCheckInterval' = 0             \* stopAutoThemeCheck
                       /\ liveIntervals' = StoppedLive
                       /\ notification' = "Auto theme disabled"
                       /\ UNCHANGED <<theme, dataTheme, transitioning,
                                      transitionTimers, lsTheme, themeIcon,
                                      toggleTitle, escaped>>
    /\ lastOp' = "toggleAutoMode"
    /\ prev' = Snapshot
    /\ toggleRun' = 0
    /\ before2' = NoThemeState
    /\ UNCHANGED <<hour, lsReadOk, lsWriteOk, domToggle, tmPc, hToggle>>

(* One firing of the setInterval callback of startAutoThemeCheck *)
IntervalTick ==
    /\ tmPc = "ready"
    /\ liveIntervals > 0
    /\ LET at == getAutoTheme(hour) IN
       IF autoMode /\ at # theme
       THEN /\ applyTheme(at, autoMode)
            /\ escaped' = (escaped \/ setStoredTheme(at).threw)
       ELSE UNCHANGED <<theme, dataTheme, transitioning, transitionTimers,
                        lsTheme, themeIcon, toggleTitle, escaped>>
    /\ lastOp' = "tick"
    /\ prev' = Snapshot
    /\ toggleRun' = 0
    /\ before2' = NoThemeState
    /\ UNCHANGED <<hour, lsAutoMode, lsReadOk, lsWriteOk, domToggle, tmPc, autoMode,
                   autoCheckInterval, liveIntervals, notification, hToggle>>

(* The 300 ms timeout of applyTheme removes the theme-transitioning class *)
TransitionEnd ==
    /\ transitionTimers > 0
    /\ transitionTimers' = transitionTimers - 1
    /\ transitioning' = FALSE
    /\ UNCHANGED <<hour, lsTheme, lsAutoMode, lsReadOk, lsWriteOk, domToggle, tmPc,
                   theme, autoMode, autoCheckInterval, liveIntervals, dataTheme,
                   themeIcon, toggleTitle, notification, escaped, hToggle,
                   lastOp, prev, toggleRun, before2>>

(* The wall clock passes into the next hour.  lastOp names the operation  *)
(* that ran last at the current hour, so the clock step takes its place.  *)
AdvanceHour ==
    /\ hour' = (hour + 1) % HoursPerDay
    /\ lastOp' = "clock"
    /\ UNCHANGED <<lsTheme, lsAutoMode, lsReadOk, lsWriteOk, domToggle, tmPc,
                   theme, autoMode, autoCheckInterval, liveIntervals, dataTheme,
                   transitioning, transitionTimers, themeIcon, toggleTitle,
                   notification, escaped, hToggle, prev, toggleRun, before2>>

\* the theme manager's variables while another component is being checked
ThemeAtRest ==
    /\ hour = 0 /\ lsTheme = Null /\ lsAutoMode = Null
    /\ lsReadOk = TRUE /\ lsWriteOk = TRUE /\ domToggle = FALSE
    /\ tmPc = "none" /\ theme = Null /\ autoMode = FALSE
    /\ autoCheckInterval = 0 /\ liveIntervals = 0 /\ dataTheme = Null
    /\ transitioning = FALSE /\ transitionTimers = 0 /\ themeIcon = Null
    /\ toggleTitle = Null /\ notification = Null /\ escaped = FALSE
    /\ hToggle = FALSE /\ lastOp = "none" /\ prev = NoSnapshot /\ toggleRun = 0
    /\ before2 = NoThemeState

-----------------------------------------------------------------------------
(* ThemeManager: the listeners of setupToggleButton.  Time is counted in   *)
(* ticks of half the long-press delay; a timer that is due fires before    *)
(* more time passes.                                                       *)

TickMs == LongPressMs \div 2

\* the pointers that can press the toggle: the mouse and a finger
Pointers == {"mouse", "touch"}

NotPressed == -1

\* `let pressTimer;` before any press, and a handle once one is stored
NoTimer == [due |-> 0, pending |-> FALSE]

PressAtRest ==
    /\ pressNow = 0 /\ pressedAt = [p \in Pointers |-> NotPressed]
    /\ pressTimer = NoTimer /\ leakedTimers = <<>>
    /\ lastFire = "none" /\ gesture = "none"

InitPress == PressAtRest

\* the due times of all pending long-press timers
PendingDues ==
    {leakedTimers[i] : i \in 1 .. Len(leakedTimers)}
        \cup (IF pressTimer.pending THEN {pressTimer.due} ELSE {})

(* pressTimer = setTimeout(() => this.toggleAutoMode(), 1000): the handle  *)
(* of a timer still pending is overwritten, and the timer stays pending.   *)
SetPressTimer ==
    /\ pressTimer.pending => Len(leakedTimers) < MaxLeaked
    /\ pressTimer' = [due |-> pressNow + LongPressMs, pending |-> TRUE]
    /\ leakedTimers' = IF pressTimer.pending
                       THEN Append(leakedTimers, pressTimer.due)
                       ELSE leakedTimers

\* clearTimeout(pressTimer)
ClearPressTimer ==
    /\ pressTimer' = [pressTimer EXCEPT !.pending = FALSE]
    /\ UNCHANGED leakedTimers

(* mousedown on .theme-toggle *)
MouseDown ==
    /\ hToggle
    /\ pressedAt["mouse"] = NotPressed
    /\ SetPressTimer
    /\ pressedAt' = [pressedAt EXCEPT !["mouse"] = pressNow]
    /\ gesture' = IF ~autoMode /\ PendingDues = {}
                      /\ pressedAt["touch"] = NotPressed
                   THEN "down" ELSE "none"
    /\ UNCHANGED <<pressNow, lastFire>>
    /\ UNCHANGED themeVars

(* touchstart on .theme-toggle *)
TouchStart ==
    /\ hToggle
    /\ pressedAt["touch"] = NotPressed
    /\ SetPressTimer
    /\ pressedAt' = [pressedAt EXCEPT !["touch"] = pressNow]
    /\ gesture' = "none"
    /\ UNCHANGED <<pressNow, lastFire>>
    /\ UNCHANGED themeVars

(* mouseup on .theme-toggle *)
MouseUp ==
    /\ hToggle
    /\ ClearPressTimer
    /\ pressedAt' = [pressedAt EXCEPT !["mouse"] = NotPressed]
    /\ gesture' = IF gesture = "fired" THEN "up" ELSE "none"
    /\ UNCHANGED <<pressNow, lastFire>>
    /\ UNCHANGED themeVars

(* mouseleave: the pointer leaves .theme-toggle, which ends its press *)
MouseLeave ==
    /\ hToggle
    /\ ClearPressTimer
    /\ pressedAt' = [pressedAt EXCEPT !["mouse"] = NotPressed]
    /\ gesture' = "none"
    /\ UNCHANGED <<pressNow, lastFire>>
    /\ UNCHANGED themeVars

(* touchend on .theme-toggle *)
TouchEnd ==
    /\ hToggle
    /\ ClearPressTimer
    /\ pressedAt' = [pressedAt EXCEPT !["touch"] = NotPressed]
    /\ gesture' = "none"
    /\ UNCHANGED <<pressNow, lastFire>>
    /\ UNCHANGED themeVars

(* click on .theme-toggle: the listener calls toggleTheme() *)
ClickToggle ==
    /\ hToggle
    /\ ToggleTheme
    /\ gesture' = IF gesture = "up" THEN "clicked" ELSE "none"
    /\ UNCHANGED <<pressNow, pressedAt, pressTimer, leakedTimers, lastFire>>

\* some press began at least the long-press delay ago and is still down
HeldLongEnough ==
    \E p \in Pointers :
        pressedAt[p] # NotPressed /\ pressedAt[p] + LongPressMs <= pressNow

(* A long-press timer that is due fires: its callback calls                *)
(* toggleAutoMode().  named tells the timer pressTimer names from one      *)
(* whose handle was overwritten.                                           *)
LongPressFires(named) ==
    /\ IF named
       THEN /\ pressTimer.pending /\ pressTimer.due <= pressNow
            /\ pressTimer' = [pressTimer EXCEPT !.pending = FALSE]
            /\ UNCHANGED leakedTimers
       ELSE /\ leakedTimers # <<>> /\ Head(leakedTimers) <= pressNow
            /\ leakedTimers' = Tail(leakedTimers)
            /\ UNCHANGED pressTimer
    /\ ToggleAutoMode
    /\ lastFire' = IF HeldLongEnough THEN "held" ELSE "released"
    /\ gesture' = IF named /\ gesture = "down" THEN "fired" ELSE "none"
    /\ UNCHANGED <<pressNow, pressedAt>>

(* Half the long-press delay passes, once no timer is due *)
PressTick ==
    /\ tmPc = "ready"
    /\ pressNow < MaxPressTicks * TickMs
    /\ \A d \in PendingDues : d > pressNow
    /\ pressNow' = pressNow + TickMs
    /\ UNCHANGED <<pressedAt, pressTimer, leakedTimers, lastFire, gesture>>
    /\ UNCHANGED themeVars

-----------------------------------------------------------------------------
(* MobileMenu *)

\* the menu's variables while another component is being checked
MenuAtRest ==
    /\ domMenuButton = FALSE /\ domNavLinks = FALSE /\ domOverlay = FALSE
    /\ navbarPending = FALSE /\ navActive = FALSE /\ overlayActive = FALSE
    /\ ariaExpanded = Null /\ bodyOverflow = ""
    /\ menuPc = "none" /\ mmButton = FALSE /\ mmNavLinks = FALSE
    /\ initialized = FALSE /\ hButton = FALSE /\ hOverlay = FALSE
    /\ hDocClick = FALSE /\ hDocKey = FALSE /\ menuThrew = FALSE
    /\ lastEvent = "none" /\ navBefore = FALSE

(* The page as the DOMContentLoaded handlers find it: the menu elements    *)
(* are part of the page, or arrive with the navbar the loader fetches.     *)
InitMenu ==
    /\ domMenuButton \in BOOLEAN
    /\ domNavLinks \in BOOLEAN
    /\ domOverlay \in BOOLEAN
    /\ navbarPending \in BOOLEAN
    /\ navActive = FALSE
    /\ overlayActive = FALSE
    /\ ariaExpanded \in {Null, "false"}
    /\ bodyOverflow = ""
    /\ menuPc = "none"
    /\ mmButton = FALSE
    /\ mmNavLinks = FALSE
    /\ initialized = FALSE
    /\ hButton = FALSE
    /\ hOverlay = FALSE
    /\ hDocClick = FALSE
    /\ hDocKey = FALSE
    /\ menuThrew = FALSE
    /\ lastEvent = "none"
    /\ navBefore = FALSE

\* init()'s guard with || for the first &&
InitGuard_either(b, n, i) == (b \/ n) /\ ~i

\* init()'s guard: this.menuButton && this.navLinks && !this.initialized
InitGuard(b, n, i) == b /\ n /\ ~i

(* The navbar loader's fetch resolves: the navbar markup, with the menu    *)
(* button and the nav links, is inserted at the start of body.             *)
NavbarLoaded ==
    /\ navbarPending
    /\ navbarPending' = FALSE
    /\ domMenuButton' = TRUE
    /\ domNavLinks' = TRUE
    /\ UNCHANGED <<domOverlay, navActive, overlayActive, ariaExpanded,
                   bodyOverflow, menuPc, mmButton, mmNavLinks, initialized,
                   hButton, hOverlay, hDocClick, hDocKey, menuThrew, lastEvent,
                   navBefore>>

(* The navbar loader's fetch fails: the error is logged, nothing inserted  *)
NavbarFailed ==
    /\ navbarPending
    /\ navbarPending' = FALSE
    /\ UNCHANGED <<domMenuButton, domNavLinks, domOverlay, navActive,
                   overlayActive, ariaExpanded, bodyOverflow, menuPc, mmButton,
                   mmNavLinks, initialized, hButton, hOverlay, hDocClick,
                   hDocKey, menuThrew, lastEvent, navBefore>>

(* new MobileMenu(): the constructor and init().  With the guard passed,   *)
(* cloning a null menu button throws before any listener is added.         *)
NewMobileMenu ==
    /\ menuPc = "none"
    /\ menuPc' = "constructed"
    /\ mmButton' = domMenuButton
    /\ mmNavLinks' = domNavLinks
    /\ IF InitGuard(domMenuButton, domNavLinks, FALSE)
       THEN IF ~domMenuButton
            THEN /\ menuThrew' = TRUE
                 /\ UNCHANGED <<domOverlay, initialized, hButton, hOverlay,
                                hDocClick, hDocKey>>
            ELSE /\ hButton' = TRUE
                 /\ domOverlay' = TRUE
                 /\ hOverlay' = TRUE
                 /\ hDocClick' = TRUE
                 /\ hDocKey' = TRUE
                 /\ initialized' = TRUE
                 /\ UNCHANGED menuThrew
       ELSE UNCHANGED <<domOverlay, initialized, hButton, hOverlay, hDocClick,
                        hDocKey, menuThrew>>
    /\ lastEvent' = "none"
    /\ navBefore' = FALSE
    /\ UNCHANGED <<domMenuButton, domNavLinks, navbarPending, navActive,
                   overlayActive, ariaExpanded, bodyOverflow>>

\* a toggleMenu() whose closing branch leaves the overlay's class in place
toggleMenu_overlayKept ==
    IF navActive
    THEN [nav |-> FALSE, overlay |-> overlayActive, aria |-> "false",
          overflow |-> ""]
    ELSE [nav |-> TRUE, overlay |-> TRUE, aria |-> "true", overflow |-> "hidden"]

(* toggleMenu(), as the state it leaves: [nav, overlay, aria, overflow] *)
toggleMenu ==
    IF navActive
    THEN [nav |-> FALSE, overlay |-> FALSE, aria |-> "false", overflow |-> ""]
    ELSE [nav |-> TRUE, overlay |-> TRUE, aria |-> "true", overflow |-> "hidden"]

NoToggle == [nav |-> navActive, overlay |-> overlayActive,
             aria |-> ariaExpanded, overflow |-> bodyOverflow]

SetMenu(m) ==
    /\ navActive' = m.nav
    /\ overlayActive' = m.overlay
    /\ ariaExpanded' = m.aria
    /\ bodyOverflow' = m.overflow

\* the elements a click can land on
ClickTargets == {"button", "overlay", "navlinks", "outside"}

TargetExists(t) ==
    CASE t = "button" -> domMenuButton
      [] t = "overlay" -> domOverlay
      [] t = "navlinks" -> domNavLinks
      [] OTHER -> TRUE

\* a click whose document listener goes by the state before the event,
\* not by what the overlay's listener left
Click_staleDocument(t) ==
    /\ TargetExists(t)
    /\ lastEvent' = t
    /\ navBefore' = navActive
    /\ IF t = "button" /\ hButton
       THEN IF ~mmNavLinks
            THEN menuThrew' = TRUE /\ SetMenu(NoToggle)
            ELSE SetMenu(toggleMenu) /\ UNCHANGED menuThrew
       ELSE IF (hOverlay \/ hDocClick) /\ ~mmNavLinks
            THEN menuThrew' = TRUE /\ SetMenu(NoToggle)
            ELSE LET afterOverlay == t = "overlay" /\ hOverlay /\ navActive
                     byDocument == /\ hDocClick /\ navActive
                                   /\ t # "navlinks" /\ t # "button"
                 IN /\ IF afterOverlay /\ byDocument
                       THEN SetMenu([nav |-> TRUE, overlay |-> TRUE,
                                     aria |-> "true", overflow |-> "hidden"])
                       ELSE IF afterOverlay \/ byDocument
                       THEN SetMenu(toggleMenu)
                       ELSE SetMenu(NoToggle)
                    /\ UNCHANGED menuThrew
    /\ UNCHANGED <<domMenuButton, domNavLinks, domOverlay, navbarPending, menuPc,
                   mmButton, mmNavLinks, initialized, hButton, hOverlay,
                   hDocClick, hDocKey>>

(* A click on target t.  The button's listener stops propagation; every    *)
(* other click reaches the overlay's listener (on the overlay) and then    *)
(* the document's.  A listener reading this.navLinks.classList of a null   *)
(* navLinks throws.                                                        *)
Click(t) ==
    /\ TargetExists(t)
    /\ lastEvent' = t
    /\ navBefore' = navActive
    /\ IF t = "button" /\ hButton
       THEN IF ~mmNavLinks
            THEN menuThrew' = TRUE /\ SetMenu(NoToggle)
            ELSE SetMenu(toggleMenu) /\ UNCHANGED menuThrew
       ELSE IF (hOverlay \/ hDocClick) /\ ~mmNavLinks
            THEN menuThrew' = TRUE /\ SetMenu(NoToggle)
            ELSE LET afterOverlay == t = "overlay" /\ hOverlay /\ navActive
                     stillActive == IF afterOverlay THEN FALSE ELSE navActive
                     byDocument == /\ hDocClick /\ stillActive
                                   /\ t # "navlinks" /\ t # "button"
                 IN /\ IF afterOverlay \/ byDocument
                       THEN SetMenu(toggleMenu)
                       ELSE SetMenu(NoToggle)
                    /\ UNCHANGED menuThrew
    /\ UNCHANGED <<domMenuButton, domNavLinks, domOverlay, navbarPending, menuPc,
                   mmButton, mmNavLinks, initialized, hButton, hOverlay,
                   hDocClick, hDocKey>>

\* the keys a keydown can carry
Keys == {"Escape", "Enter"}

\* a keydown whose Escape toggles the menu whether it is open or not
KeyDown_toggles(k) ==
    /\ lastEvent' = k
    /\ navBefore' = navActive
    /\ IF hDocKey /\ k = "Escape"
       THEN IF ~mmNavLinks
            THEN menuThrew' = TRUE /\ SetMenu(NoToggle)
            ELSE /\ SetMenu(toggleMenu)
                 /\ UNCHANGED menuThrew
       ELSE SetMenu(NoToggle) /\ UNCHANGED menuThrew
    /\ UNCHANGED <<domMenuButton, domNavLinks, domOverlay, navbarPending, menuPc,
                   mmButton, mmNavLinks, initialized, hButton, hOverlay,
                   hDocClick, hDocKey>>

(* A keydown of key k, seen by the document's listener *)
KeyDown(k) ==
    /\ lastEvent' = k
    /\ navBefore' = navActive
    /\ IF hDocKey /\ k = "Escape"
       THEN IF ~mmNavLinks
            THEN menuThrew' = TRUE /\ SetMenu(NoToggle)
            ELSE /\ IF navActive THEN SetMenu(toggleMenu) ELSE SetMenu(NoToggle)
                 /\ UNCHANGED menuThrew
       ELSE SetMenu(NoToggle) /\ UNCHANGED menuThrew
    /\ UNCHANGED <<domMenuButton, domNavLinks, domOverlay, navbarPending, menuPc,
                   mmButton, mmNavLinks, initialized, hButton, hOverlay,
                   hDocClick, hDocKey>>

-----------------------------------------------------------------------------
(* One page: the navbar loader, the theme manager and the mobile menu.     *)
(* The markup of the page holds none of .menu-button, .nav-links and       *)
(* .theme-toggle; they come with the navbar the loader fetches.            *)

InitPage ==
    /\ InitTheme /\ domToggle = FALSE
    /\ InitMenu /\ ~domMenuButton /\ ~domNavLinks /\ navbarPending

(* DOMContentLoaded: the loader starts its fetch, and the handler of the   *)
(* navigation script constructs the ThemeManager and sets the 100 ms       *)
(* timeout that will construct the MobileMenu.                             *)
PageLoaded ==
    /\ NewThemeManager
    /\ UNCHANGED menuVars

(* The fetch resolves, after the DOMContentLoaded handlers have returned:  *)
(* the navbar, with the menu button, the nav links and the theme toggle,   *)
(* is inserted into body.                                                  *)
NavbarArrives ==
    /\ tmPc = "ready"
    /\ NavbarLoaded
    /\ domToggle' = TRUE
    /\ UNCHANGED <<hour, lsTheme, lsAutoMode, lsReadOk, lsWriteOk, tmPc, theme,
                   autoMode, autoCheckInterval, liveIntervals, dataTheme,
                   transitioning, transitionTimers, themeIcon, toggleTitle,
                   notification, escaped, hToggle, lastOp, prev, toggleRun,
                   before2>>

(* The fetch fails, after the DOMContentLoaded handlers have returned *)
NavbarMissing ==
    /\ tmPc = "ready"
    /\ NavbarFailed
    /\ UNCHANGED themeVars

(* The 100 ms timeout fires: new MobileMenu() *)
MenuTimeout ==
    /\ tmPc = "ready"
    /\ NewMobileMenu
    /\ UNCHANGED themeVars

(* A click on .theme-toggle, which reaches toggleTheme() through the click *)
(* listener when setupToggleButton has added one                           *)
ClickThemeToggle ==
    /\ domToggle
    /\ IF hToggle THEN ToggleTheme ELSE UNCHANGED themeVars
    /\ UNCHANGED menuVars

-----------------------------------------------------------------------------
(* The file system the maintenance script runs over *)

\* path.join(__dirname, '..'), as path segments
ProjectRoot == <<<<"s", "r", "v">>, <<"C", "o", "l", "l", "e", "g", "e", "_", "d", "a", "d", "d", "y">>>>

\* notesDir, relative to the project root
NotesDir == <<<<"d", "a", "t", "a">>, <<"n", "o", "t", "e", "s">>>>

Slash == <<"/">>

(* The directory entries a notes tree is drawn from: regular files with    *)
(* their size and the date of their mtime, and a dangling symbolic link,   *)
(* which readdirSync lists and statSync throws on.  dir is the directory   *)
(* of the entry under notesDir.  The folder "s" of the last entry is part  *)
(* of the name of both subjects of the catalog.                            *)
Entries == <<
    [dir |-> <<<<"s", "e", "m", "e", "s", "t", "e", "r", "-", "1">>, <<"c", "s", "e">>, <<"d", "b", "m", "s">>>>, name |-> <<"a", ".", "p", "d", "f">>,
     kind |-> "file", size |-> 1024, mtime |-> "2025-03-01"],
    [dir |-> <<<<"s", "e", "m", "e", "s", "t", "e", "r", "-", "1">>, <<"c", "s", "e">>, <<"o", "p", "e", "r", "a", "t", "i", "n", "g", "-", "s", "y", "s", "t", "e", "m">>>>, name |-> <<"b", ".", "p", "d", "f">>,
     kind |-> "file", size |-> 0, mtime |-> "2025-03-02"],
    [dir |-> <<<<"s", "e", "m", "e", "s", "t", "e", "r", "-", "1">>, <<"c", "s", "e">>, <<"d", "a", "t", "a">>, <<"n", "o", "t", "e", "s">>, <<"d", "b", "m", "s">>>>, name |-> <<"a", ".", "p", "d", "f">>,
     kind |-> "file", size |-> 1536, mtime |-> "2025-03-03"],
    [dir |-> <<<<"s", "e", "m", "e", "s", "t", "e", "r", "-", "1">>, <<"c", "s", "e">>, <<"d", "a", "t", "a">>, <<"n", "o", "t", "e", "s">>, <<"d", "b", "m", "s">>>>, name |-> <<"c", ".", "p", "d", "f">>,
     kind |-> "file", size |-> 2048, mtime |-> "2025-03-04"],
    [dir |-> <<<<"s", "e", "m", "e", "s", "t", "e", "r", "-", "2">>, <<"c", "s", "e">>, <<"d", "b", "m", "s">>>>, name |-> <<"a", ".", "p", "d", "f">>,
     kind |-> "file", size |-> 10, mtime |-> "2025-03-05"],
    [dir |-> <<<<"s", "e", "m", "e", "s", "t", "e", "r", "-", "1">>, <<"c", "s", "e">>, <<"m", "i", "s", "c">>>>, name |-> <<"d", ".", "p", "d", "f">>,
     kind |-> "file", size |-> 1048576, mtime |-> "2025-03-06"],
    [dir |-> <<<<"s", "e", "m", "e", "s", "t", "e", "r", "-", "1">>, <<"c", "s", "e">>, <<"d", "b", "m", "s">>>>, name |-> <<"r", "e", "a", "d", "m", "e", ".", "t", "x", "t">>,
     kind |-> "file", size |-> 100, mtime |-> "2025-03-07"],
    [dir |-> <<<<"s", "e", "m", "e", "s", "t", "e", "r", "-", "1">>, <<"c", "s", "e">>, <<"d", "b", "m", "s">>>>, name |-> <<"g", "o", "n", "e", ".", "p", "d", "f">>,
     kind |-> "broken", size |-> 0, mtime |-> "2025-03-08"],
    [dir |-> <<<<"s", "e", "m", "e", "s", "t", "e", "r", "-", "1">>, <<"c", "s", "e">>, <<"s">>>>, name |-> <<"e", ".", "p", "d", "f">>,
     kind |-> "file", size |-> 512, mtime |-> "2025-03-09"] >>

EntryIds == 1 .. Len(Entries)

\* the segments of entry e from the project root
RelSegments(e) == NotesDir \o Entries[e].dir \o <<Entries[e].name>>

\* path.relative(path.join(__dirname, '..'), fullPath), '/'-separated
RelativePath(e) == Join(RelSegments(e), Slash)

\* fullPath of entry e: path.join(dir, item) down from notesDir
FullPath(e) == Slash \o Join(ProjectRoot \o RelSegments(e), Slash)

NoStat == [ok |-> FALSE, isDir |-> FALSE, size |-> 0, mtime |-> ""]

(* fs.statSync of the path with segments segs under the project root, in   *)
(* the tree of entries tree: a file, a directory (a proper prefix of an    *)
(* entry, or notesDir and its parents), or ENOENT (ok = FALSE).            *)
StatSegments(segs, tree) ==
    IF \E e \in tree : RelSegments(e) = segs
    THEN LET e == CHOOSE e \in tree : RelSegments(e) = segs IN
         IF Entries[e].kind = "broken" THEN NoStat
         ELSE [ok |-> TRUE, isDir |-> FALSE, size |-> Entries[e].size,
               mtime |-> Entries[e].mtime]
    ELSE IF \/ \E e \in tree : /\ Len(segs) < Len(RelSegments(e))
                               /\ SubSeq(RelSegments(e), 1, Len(segs)) = segs
            \/ (Len(segs) <= Len(NotesDir) /\ SubSeq(NotesDir, 1, Len(segs)) = segs)
         THEN [ok |-> TRUE, isDir |-> TRUE, size |-> 4096, mtime |-> "2025-04-01"]
         ELSE NoStat

-----------------------------------------------------------------------------
(* The catalog, data/notes-data.json *)

\* keywords, which no property here reads, are left out of the record
Material(title, description, p, size, uploadDate) ==
    [title |-> title, description |-> description, path |-> p, type |-> "pdf",
     size |-> size, uploadDate |-> uploadDate, downloadUrl |-> p]

\* records a catalog may hold before a run, by subject
KnownDbmsA ==
    Material(<<"a">>, <<"d", "b", "m", "s", " ", "n", "o", "t", "e", "s">>, <<".", ".", "/", "d", "a", "t", "a", "/", "n", "o", "t", "e", "s", "/", "s", "e", "m", "e", "s", "t", "e", "r", "-", "1", "/", "c", "s", "e", "/", "d", "b", "m", "s", "/", "a", ".", "p", "d", "f">>,
             "1 Bytes", "2024-01-01")

KnownDbmsOld ==
    Material(<<"o", "l", "d">>, <<"d", "b", "m", "s", " ", "n", "o", "t", "e", "s">>, <<".", ".", "/", "d", "a", "t", "a", "/", "n", "o", "t", "e", "s", "/", "s", "e", "m", "e", "s", "t", "e", "r", "-", "1", "/", "c", "s", "e", "/", "d", "b", "m", "s", "/", "o", "l", "d", ".", "p", "d", "f">>,
             "2 KB", "2024-01-02")

KnownOsB ==
    Material(<<"b">>, <<"o", "s", " ", "n", "o", "t", "e", "s">>, <<"/", "d", "a", "t", "a", "/", "n", "o", "t", "e", "s", "/", "s", "e", "m", "e", "s", "t", "e", "r", "-", "1", "/", "c", "s", "e", "/", "o", "p", "e", "r", "a", "t", "i", "n", "g", "-", "s", "y", "s", "t", "e", "m", "/", "b", ".", "p", "d", "f">>,
             "5 KB", "2024-01-03")

Catalog(dbms, os) ==
    [semesters |-> <<
        [id |-> 1, branches |-> <<
            [id |-> <<"c", "s", "e">>, subjects |-> <<
                [name |-> <<"D", "B", "M", "S">>, materials |-> dbms],
                [name |-> <<"O", "p", "e", "r", "a", "t", "i", "n", "g", " ", "S", "y", "s", "t", "e", "m">>, materials |-> os] >>] >>] >>]

\* the catalogs a run may find on disk: their material paths are distinct
StartCatalogs ==
    {Catalog(d, o) :
        d \in {<<>>, <<KnownDbmsA>>, <<KnownDbmsOld>>, <<KnownDbmsA, KnownDbmsOld>>},
        o \in {<<>>, <<KnownOsB>>}}

\* the catalog file: its text parses to a catalog, or JSON.parse throws
JsonFile(c) == [parses |-> TRUE, catalog |-> c]

Corrupt == [parses |-> FALSE, catalog |-> [semesters |-> <<>>]]

\* the variable data before the file is read
NoCatalog == [semesters |-> <<>>]

\* every material of catalog c, as <<semester, branch, subject, index>> places
Places(c) ==
    UNION {UNION {UNION {
        {<<s, b, k, m>> :
            m \in 1 .. Len(c.semesters[s].branches[b].subjects[k].materials)} :
        k \in 1 .. Len(c.semesters[s].branches[b].subjects)} :
        b \in 1 .. Len(c.semesters[s].branches)} :
        s \in 1 .. Len(c.semesters)}

MaterialAt(c, pl) ==
    c.semesters[pl[1]].branches[pl[2]].subjects[pl[3]].materials[pl[4]]

PathsOf(c) == {MaterialAt(c, pl).path : pl \in Places(c)}

-----------------------------------------------------------------------------
(* The maintenance script: pure parts *)

\* Array.prototype.find, as the first index whose element is in hits, else 0
FirstIn(arr, hits) ==
    IF \E i \in 1 .. Len(arr) : arr[i] \in hits
    THEN CHOOSE i \in 1 .. Len(arr) :
            arr[i] \in hits /\ \A j \in 1 .. (i - 1) : arr[j] \notin hits
    ELSE 0

\* the branch directories findSubjectByPath knows
BranchDirs == {<<"c", "s", "e">>, <<"a", "i">>, <<"p", "h", "y", "s", "i", "c", "s">>}

\* the folder-to-subject aliases of findSubjectByPath
Mappings == <<
    [folder |-> <<"c", "o", "m", "p", "u", "t", "e", "r", " ", "n", "e", "t", "w", "o", "r", "k">>, subjects |-> <<<<"c", "o", "m", "p", "u", "t", "e", "r", " ", "n", "e", "t", "w", "o", "r", "k">>, <<"c", "n">>>>],
    [folder |-> <<"r", "e", "s", "e", "a", "r", "c", "h", " ", "m", "e", "t", "h", "a", "d", "o", "l", "o", "g", "y">>, subjects |-> <<<<"r", "e", "s", "e", "a", "r", "c", "h", " ", "m", "e", "t", "h", "o", "d", "o", "l", "o", "g", "y">>, <<"r", "m">>>>],
    [folder |-> <<"t", "h", "e", "o", "r", "y", " ", "o", "f", " ", "c", "o", "m", "p", "u", "t", "a", "t", "i", "o", "n">>, subjects |-> <<<<"t", "h", "e", "o", "r", "y", " ", "o", "f", " ", "c", "o", "m", "p", "u", "t", "a", "t", "i", "o", "n">>, <<"t", "o", "c">>>>],
    [folder |-> <<"o", "p", "e", "r", "a", "t", "i", "n", "g", "-", "s", "y", "s", "t", "e", "m">>, subjects |-> <<<<"o", "p", "e", "r", "a", "t", "i", "n", "g", " ", "s", "y", "s", "t", "e", "m">>, <<"o", "s">>>>],
    [folder |-> <<"g", "r", "a", "p", "h", "-", "t", "h", "e", "o", "r", "y">>, subjects |-> <<<<"g", "r", "a", "p", "h", " ", "t", "h", "e", "o", "r", "y">>>>],
    [folder |-> <<"m", "i", "c", "r", "o", "c", "o", "n", "t", "r", "o", "l", "l", "e", "r">>, subjects |-> <<<<"m", "i", "c", "r", "o", "c", "o", "n", "t", "r", "o", "l", "l", "e", "r">>>>],
    [folder |-> <<"m", "a", "n", "u", "a", "l", "s">>, subjects |-> <<<<"l", "a", "b", " ", "m", "a", "n", "u", "a", "l">>>>],
    [folder |-> <<"q", "u", "e", "s", "t", "i", "o", "n">>, subjects |-> <<<<"q", "u", "e", "s", "t", "i", "o", "n", " ", "p", "a", "p", "e", "r", "s">>, <<"p", "y", "q">>>>],
    [folder |-> <<"s", "y", "l", "l", "a", "b", "u", "s">>, subjects |-> <<<<"s", "y", "l", "l", "a", "b", "u", "s">>>>],
    [folder |-> <<"p", "y", "q">>, subjects |-> <<<<"p", "y", "q">>, <<"q", "u", "e", "s", "t", "i", "o", "n", " ", "p", "a", "p", "e", "r", "s">>>>],
    [folder |-> <<"e", "v", "s">>, subjects |-> <<<<"e", "v", "s">>>>],
    [folder |-> <<"a", "i">>, subjects |-> <<<<"a", "i">>>>],
    [folder |-> <<"s", "e", "p", "m">>, subjects |-> <<<<"s", "e", "p", "m">>>>] >>

\* the predicate of branch.subjects.find in findSubjectByPath
SubjectMatches(name, subjectLower) ==
    LET subjectName == ToLowerCase(name) IN
    \/ subjectName = subjectLower
    \/ Includes(subjectName, subjectLower)
    \/ Includes(subjectLower, subjectName)
    \/ \E i \in 1 .. Len(Mappings) :
          /\ subjectLower = Mappings[i].folder
          /\ \E j \in 1 .. Len(Mappings[i].subjects) :
                Includes(subjectName, Mappings[i].subjects[j])

NoSubject == <<>>

(* findSubjectByPath(filePath) over catalog c: the place <<semester,       *)
(* branch, subject>> of the first matching subject, NoSubject for null     *)
findSubjectByPath(filePath, c) ==
    LET pathParts == Split(filePath, Slash)
        si == FirstIn(pathParts, {p \in {pathParts[i] : i \in 1 .. Len(pathParts)} :
                                      StartsWith(p, <<"s", "e", "m", "e", "s", "t", "e", "r", "-">>)})
        bi == FirstIn(pathParts, BranchDirs)
        subjectMatch == At(pathParts, Len(pathParts) - 2)
    IN
    IF si = 0 \/ bi = 0 \/ subjectMatch = Undefined \/ subjectMatch = <<>>
    THEN NoSubject
    ELSE LET semesterNum == ParseInt(At(Split(pathParts[si], <<"-">>), 1))
             s == FirstIn(c.semesters,
                          {x \in {c.semesters[i] : i \in 1 .. Len(c.semesters)} :
                               x.id = semesterNum})
         IN IF s = 0 THEN NoSubject
            ELSE LET branches == c.semesters[s].branches
                     b == FirstIn(branches,
                                  {x \in {branches[i] : i \in 1 .. Len(branches)} :
                                       x.id = pathParts[bi]})
                 IN IF b = 0 THEN NoSubject
                    ELSE LET subjects == branches[b].subjects
                             k == FirstIn(subjects,
                                    {x \in {subjects[i] : i \in 1 .. Len(subjects)} :
                                         SubjectMatches(x.name,
                                                        ToLowerCase(subjectMatch))})
                         IN IF k = 0 THEN NoSubject ELSE <<s, b, k>>

\* path.basename(filePath, '.pdf') of a name
Basename(name) ==
    IF EndsWith(name, <<".", "p", "d", "f">>) /\ Len(name) > 4
    THEN SubSeq(name, 1, Len(name) - 4)
    ELSE name

(* createMaterialFromFile(filePath, stats) of entry e.  mtime is the date  *)
(* stats.mtime.toISOString().split('T')[0] gives.                          *)
createMaterialFromFile(e) ==
    LET relativePath == RelativePath(e)
        pathParts == Split(relativePath, Slash)
        parent == At(pathParts, Len(pathParts) - 2)
        subjectName == IF parent = Undefined \/ parent = <<>> THEN <<"U", "n", "k", "n", "o", "w", "n">>
                       ELSE parent
    IN Material(Basename(Entries[e].name), subjectName \o <<" ", "n", "o", "t", "e", "s">>,
                <<".", ".", "/", "d", "a", "t", "a", "/", "n", "o", "t", "e", "s", "/">> \o At(Split(relativePath, <<"d", "a", "t", "a", "/", "n", "o", "t", "e", "s", "/">>), 1),
                formatFileSize(Entries[e].size), Entries[e].mtime)

\* the path scanDirectory looks up in existingPaths
MaterialPath(e) == <<".", ".", "/">> \o RelativePath(e)

\* the segments under the project root a material path resolves to
NonEmpty(seg) == seg # <<>>

\* updateMaterialMetadata without its try/catch
updateMaterialMetadata_uncaught(material, tree) ==
    LET p == material.path
        st == IF StartsWith(p, <<".", ".", "/", "d", "a", "t", "a", "/">>)
              THEN StatSegments(SelectSeq(Split(Substring(p, 3), Slash), NonEmpty), tree)
              ELSE IF StartsWith(p, <<"/", "d", "a", "t", "a", "/">>)
              THEN StatSegments(SelectSeq(Split(Substring(p, 1), Slash), NonEmpty), tree)
              ELSE NoStat
    IN IF st.ok
       THEN [material |-> [material EXCEPT !.size = formatFileSize(st.size),
                                           !.uploadDate = st.mtime],
             threw |-> FALSE]
       ELSE [material |-> material, threw |-> TRUE]

(* updateMaterialMetadata(material): the record with size and uploadDate   *)
(* refreshed from the file's stat, unchanged when statSync throws (the     *)
(* catch logs "File not found").  A path of neither prefix is looked up    *)
(* from the working directory, the scripts directory, which holds no note. *)
updateMaterialMetadata(material, tree) ==
    LET p == material.path
        st == IF StartsWith(p, <<".", ".", "/", "d", "a", "t", "a", "/">>)
              THEN StatSegments(SelectSeq(Split(Substring(p, 3), Slash), NonEmpty), tree)
              ELSE IF StartsWith(p, <<"/", "d", "a", "t", "a", "/">>)
              THEN StatSegments(SelectSeq(Split(Substring(p, 1), Slash), NonEmpty), tree)
              ELSE NoStat
    IN IF st.ok
       THEN [material |-> [material EXCEPT !.size = formatFileSize(st.size),
                                           !.uploadDate = st.mtime],
             threw |-> FALSE]
       ELSE [material |-> material, threw |-> FALSE]

\* subject.materials.forEach(updateMaterialMetadata)
RefreshMaterials(ms, tree) ==
    [m \in 1 .. Len(ms) |-> updateMaterialMetadata(ms[m], tree).material]

RefreshSubjects(ss, tree) ==
    [k \in 1 .. Len(ss) |->
        [ss[k] EXCEPT !.materials = RefreshMaterials(@, tree)]]

RefreshBranches(bs, tree) ==
    [b \in 1 .. Len(bs) |-> [bs[b] EXCEPT !.subjects = RefreshSubjects(@, tree)]]

\* the nested forEach of lines 185-191 over catalog c
RefreshAll(c, tree) ==
    [c EXCEPT !.semesters =
        [s \in 1 .. Len(c.semesters) |->
            [c.semesters[s] EXCEPT !.branches = RefreshBranches(@, tree)]]]

\* some updateMaterialMetadata call of the forEach throws
RefreshThrows(c, tree) ==
    \E pl \in Places(c) : updateMaterialMetadata(MaterialAt(c, pl), tree).threw

-----------------------------------------------------------------------------
(* The maintenance script: one run of update-file-metadata.js *)

\* the script's variables while another component is being checked
ScriptAtRest ==
    /\ fsTree = {} /\ diskCatalog = Corrupt /\ diskAtStart = Corrupt
    /\ data = NoCatalog /\ existingPaths = {} /\ visited = {}
    /\ scriptPc = "idle" /\ writeCount = 0 /\ refreshed = FALSE

FormatAtRest == fmtIn = 0 /\ fmtOut = Null

(* A run starts over some notes tree of at most MaxFiles entries and some  *)
(* catalog file, one whose material paths are pairwise distinct or one     *)
(* that does not parse.                                                    *)
InitScript ==
    /\ fsTree \in {t \in SUBSET EntryIds : Cardinality(t) <= MaxFiles}
    /\ diskCatalog \in {JsonFile(c) : c \in StartCatalogs} \cup {Corrupt}
    /\ diskAtStart = diskCatalog
    /\ data = NoCatalog
    /\ existingPaths = {}
    /\ visited = {}
    /\ scriptPc = "start"
    /\ writeCount = 0
    /\ refreshed = FALSE

(* Lines 4-7 and 119-130: read and parse the catalog (a throw ends the     *)
(* run), then collect the paths it holds.                                  *)
LoadCatalog ==
    /\ scriptPc = "start"
    /\ IF ~diskCatalog.parses
       THEN /\ scriptPc' = "aborted"
            /\ UNCHANGED <<data, existingPaths>>
       ELSE /\ data' = diskCatalog.catalog
            /\ existingPaths' = PathsOf(diskCatalog.catalog)
            /\ scriptPc' = IF fsTree = {} THEN "refresh" ELSE "scan"
    /\ UNCHANGED <<fsTree, diskCatalog, diskAtStart, visited, writeCount,
                   refreshed, fmtIn, fmtOut>>

\* a push that adds the record twice
PushMaterial_twice(c, pl, m) ==
    [c EXCEPT !.semesters[pl[1]].branches[pl[2]].subjects[pl[3]].materials =
                  Append(Append(@, m), m)]

\* subject.materials.push(newMaterial) at place pl of catalog c
PushMaterial(c, pl, m) ==
    [c EXCEPT !.semesters[pl[1]].branches[pl[2]].subjects[pl[3]].materials =
                  Append(@, m)]

(* scanDirectory's forEach body for one directory entry e.  statSync of a  *)
(* dangling link throws, and nothing catches it.                           *)
ScanEntry(e) ==
    /\ scriptPc = "scan"
    /\ e \in fsTree \ visited
    /\ IF ~StatSegments(RelSegments(e), fsTree).ok
       THEN /\ scriptPc' = "aborted"
            /\ UNCHANGED <<data, visited>>
       ELSE /\ visited' = visited \cup {e}
            /\ scriptPc' = IF visited' = fsTree THEN "refresh" ELSE "scan"
            /\ LET subject == findSubjectByPath(FullPath(e), data) IN
               IF /\ EndsWith(Entries[e].name, <<".", "p", "d", "f">>)
                  /\ MaterialPath(e) \notin existingPaths
                  /\ subject # NoSubject
               THEN data' = PushMaterial(data, subject, createMaterialFromFile(e))
               ELSE UNCHANGED data
    /\ UNCHANGED <<fsTree, diskCatalog, diskAtStart, existingPaths, writeCount,
                   refreshed, fmtIn, fmtOut>>

(* Lines 185-191: updateMaterialMetadata for every material *)
RefreshMetadata ==
    /\ scriptPc = "refresh"
    /\ IF RefreshThrows(data, fsTree)
       THEN /\ scriptPc' = "aborted"
            /\ UNCHANGED <<data, refreshed>>
       ELSE /\ data' = RefreshAll(data, fsTree)
            /\ refreshed' = TRUE
            /\ scriptPc' = "write"
    /\ UNCHANGED <<fsTree, diskCatalog, diskAtStart, existingPaths, visited,
                   writeCount, fmtIn, fmtOut>>

\* a writeFileSync after every step instead of once at the end
WriteCatalog_everyStep ==
    /\ scriptPc \in {"scan", "refresh", "write"}
    /\ diskCatalog' = JsonFile(data)
    /\ writeCount' = writeCount + 1
    /\ scriptPc' = IF scriptPc = "write" THEN "done" ELSE scriptPc
    /\ UNCHANGED <<fsTree, diskAtStart, data, existingPaths, visited, refreshed,
                   fmtIn, fmtOut>>

(* Line 194: fs.writeFileSync(jsonPath, JSON.stringify(data, null, 2)) *)
WriteCatalog ==
    /\ scriptPc = "write"
    /\ diskCatalog' = JsonFile(data)
    /\ writeCount' = writeCount + 1
    /\ scriptPc' = "done"
    /\ UNCHANGED <<fsTree, diskAtStart, data, existingPaths, visited, refreshed,
                   fmtIn, fmtOut>>

-----------------------------------------------------------------------------
(* formatFileSize applied to a size *)

InitFormat ==
    /\ fmtIn \in 0 .. MaxBytes
    /\ fmtOut = Null

FormatSize ==
    /\ fmtOut = Null
    /\ fmtOut' = formatFileSize(fmtIn)
    /\ UNCHANGED <<fsTree, diskCatalog, diskAtStart, data, existingPaths, visited,
                   scriptPc, writeCount, refreshed, fmtIn>>

-----------------------------------------------------------------------------
(* The watcher, auto-update-watcher.js *)

\* the debounce delay of the watcher's setTimeout, in seconds
DebounceSeconds == 2

\* a watcher step, with what exec handed isAppRunning's callback when the
\* step is the end of a check
Step(name) == [step |-> name, error |-> FALSE, stdout |-> {}]

WatcherAtRest ==
    /\ now = 0 /\ updateTimeout = FALSE /\ timerPending = FALSE
    /\ timerDue = 0 /\ checksRunning = 0 /\ runsRunning = 0
    /\ lastPdfEvent = 0 /\ bursts = <<>> /\ checkOf = <<>>
    /\ lastStep = Step("none")

InitWatcher ==
    /\ now = 0
    /\ updateTimeout = FALSE
    /\ timerPending = FALSE
    /\ timerDue = 0
    /\ checksRunning = 0
    /\ runsRunning = 0
    /\ lastPdfEvent = 0
    /\ bursts = <<>>
    /\ checkOf = <<>>
    /\ lastStep = Step("none")

\* the file names fs.watch may report: a PDF, another file, none
WatchedNames == {"pdf", "other", "null"}

\* the callback's test: filename && filename.endsWith('.pdf')
IsPdfChange(kind) == kind = "pdf"

\* a run of PDF changes, each less than the delay after the one before it:
\* whether it has had several changes, when its last change came, the
\* checks and updates launched for it, and when they were launched
NotLaunched == -1

NewBurst == [several |-> FALSE, last |-> now, checks |-> 0, runs |-> 0,
             checkAt |-> NotLaunched, runAt |-> NotLaunched]

\* a PDF change now continues the burst of the change before it
ContinuesBurst == bursts # <<>> /\ now - lastPdfEvent < DebounceSeconds

RemoveAt(s, i) == [j \in 1..(Len(s) - 1) |-> IF j < i THEN s[j] ELSE s[j + 1]]

\* a callback that sets the timeout only when none is pending, and so
\* leaves the timeout of the first change of a burst in place
FileChange_firstTimerKept(kind) ==
    /\ IF IsPdfChange(kind)
       THEN /\ updateTimeout' = TRUE
            /\ timerPending' = TRUE
            /\ timerDue' = IF timerPending THEN timerDue
                           ELSE now + DebounceSeconds
            /\ lastPdfEvent' = now
            /\ bursts' = IF ContinuesBurst
                         THEN [bursts EXCEPT ![Len(bursts)].last = now,
                                            ![Len(bursts)].several = TRUE]
                         ELSE Append(bursts, NewBurst)
       ELSE UNCHANGED <<updateTimeout, timerPending, timerDue, lastPdfEvent,
                        bursts>>
    /\ lastStep' = Step(kind)
    /\ UNCHANGED <<now, checksRunning, runsRunning, checkOf>>

(* The fs.watch callback for a change of a file named kind: for a PDF the  *)
(* pending timeout is cleared and a new one set, 2000 ms from now.         *)
FileChange(kind) ==
    /\ IF IsPdfChange(kind)
       THEN /\ updateTimeout' = TRUE
            /\ timerPending' = TRUE
            /\ timerDue' = now + DebounceSeconds
            /\ lastPdfEvent' = now
            /\ bursts' = IF ContinuesBurst
                         THEN [bursts EXCEPT ![Len(bursts)].last = now,
                                            ![Len(bursts)].several = TRUE]
                         ELSE Append(bursts, NewBurst)
       ELSE UNCHANGED <<updateTimeout, timerPending, timerDue, lastPdfEvent,
                        bursts>>
    /\ lastStep' = Step(kind)
    /\ UNCHANGED <<now, checksRunning, runsRunning, checkOf>>

(* The timeout fires, no earlier than it is due: isAppRunning() starts     *)
(* its tasklist child process and the callback awaits it.  The timeout     *)
(* was set by the last PDF change, so the check is that burst's.           *)
TimeoutFires ==
    /\ timerPending
    /\ now >= timerDue
    /\ checksRunning < MaxProcesses
    /\ timerPending' = FALSE
    /\ checksRunning' = checksRunning + 1
    /\ checkOf' = Append(checkOf, Len(bursts))
    /\ bursts' = [bursts EXCEPT ![Len(bursts)].checks = @ + 1,
                                ![Len(bursts)].checkAt = now]
    /\ lastStep' = Step("fires")
    /\ UNCHANGED <<now, updateTimeout, timerDue, runsRunning, lastPdfEvent>>

\* what tasklist's output can hold of the two strings isAppRunning looks for
TasklistOutputs == SUBSET {"app.py", "python.exe"}

includes(stdout, text) == text \in stdout

\* an isAppRunning that resolves true when tasklist fails
isAppRunning_errorIgnored(error, stdout) ==
    error \/ includes(stdout, "app.py") \/ includes(stdout, "python.exe")

(* isAppRunning's exec callback: false on an error, else whether stdout    *)
(* includes 'app.py' or 'python.exe'                                       *)
isAppRunning(error, stdout) ==
    IF error THEN FALSE
    ELSE includes(stdout, "app.py") \/ includes(stdout, "python.exe")

(* The tasklist of the i-th check in flight returns and isAppRunning       *)
(* resolves: with true, updateMetadata() starts                            *)
(* `node update-file-metadata.js` as a child process, and returns.         *)
CheckResolves(i, error, stdout) ==
    LET appRunning == isAppRunning(error, stdout)
    IN /\ checksRunning > 0
       /\ i \in DOMAIN checkOf
       /\ appRunning => runsRunning < MaxProcesses
       /\ checksRunning' = checksRunning - 1
       /\ checkOf' = RemoveAt(checkOf, i)
       /\ runsRunning' = IF appRunning THEN runsRunning + 1 ELSE runsRunning
       /\ bursts' = IF appRunning
                    THEN [bursts EXCEPT ![checkOf[i]].runs = @ + 1,
                                        ![checkOf[i]].runAt = now]
                    ELSE bursts
       /\ lastStep' = [step |-> "resolved", error |-> error,
                       stdout |-> stdout]
       /\ UNCHANGED <<now, updateTimeout, timerPending, timerDue,
                      lastPdfEvent>>

(* A metadata run exits, with or without an error: exec's callback logs it *)
RunExits ==
    /\ runsRunning > 0
    /\ runsRunning' = runsRunning - 1
    /\ lastStep' = Step("exit")
    /\ UNCHANGED <<now, updateTimeout, timerPending, timerDue, checksRunning,
                   lastPdfEvent, bursts, checkOf>>

(* A second passes *)
SecondPasses ==
    /\ now < MaxSeconds
    /\ now' = now + 1
    /\ lastStep' = Step("second")
    /\ UNCHANGED <<updateTimeout, timerPending, timerDue, checksRunning,
                   runsRunning, lastPdfEvent, bursts, checkOf>>

-----------------------------------------------------------------------------
(* The offline cache, offlineCache.js *)

\* the keys the cache is used under
OfflineKeys == {"notes", "tasks"}

\* a JavaScript value handed to saveOfflineData or returned by
\* loadOfflineData
JsValue(type, num, str) == [type |-> type, num |-> num, str |-> str]

\* undefined, null, 0, 7, NaN, '', 'a', and an object that refers to itself
OfflineValues ==
    {JsValue("undefined", 0, ""), JsValue("null", 0, ""),
     JsValue("number", 0, ""), JsValue("number", 7, ""), JsValue("NaN", 0, ""),
     JsValue("string", 0, ""), JsValue("string", 0, "a"),
     JsValue("circular", 0, "")}

(* JSON.stringify(v): the JSON text of v; undefined, which is no text, for *)
(* undefined; 'null' for null and for NaN; a TypeError for an object that  *)
(* refers to itself.                                                       *)
JSONstringify(v) ==
    CASE v.type = "undefined" -> [text |-> "", defined |-> FALSE, threw |-> FALSE]
      [] v.type \in {"null", "NaN"} ->
            [text |-> "null", defined |-> TRUE, threw |-> FALSE]
      [] v.type = "number" ->
            [text |-> ToString(v.num), defined |-> TRUE, threw |-> FALSE]
      [] v.type = "string" ->
            [text |-> "\"" \o v.str \o "\"", defined |-> TRUE, threw |-> FALSE]
      [] OTHER -> [text |-> "", defined |-> FALSE, threw |-> TRUE]

(* JSON.parse(text): the value text is the JSON text of, a SyntaxError for *)
(* a text that is no JSON                                                  *)
JSONparse(text) ==
    LET values == {v \in OfflineValues :
                      /\ v.type \in {"null", "number", "string"}
                      /\ JSONstringify(v).text = text}
    IN IF values = {}
       THEN [val |-> JsValue("null", 0, ""), threw |-> TRUE]
       ELSE [val |-> CHOOSE v \in values : TRUE, threw |-> FALSE]

\* the cache's variables while another component is being checked
OfflineAtRest ==
    /\ olStore = [k \in OfflineKeys |-> Null]
    /\ olAccess = "ok"
    /\ olLast = [op |-> "none", key |-> "notes",
                 data |-> JsValue("null", 0, ""), returned |-> FALSE,
                 threw |-> FALSE, written |-> Null, before |-> Null,
                 loaded |-> JsValue("null", 0, "")]

\* nothing stored yet; localStorage works, is full, or is out of reach
InitOffline ==
    /\ olStore = [k \in OfflineKeys |-> Null]
    /\ olAccess \in {"ok", "full", "denied"}
    /\ olLast = [op |-> "none", key |-> "notes",
                 data |-> JsValue("null", 0, ""), returned |-> FALSE,
                 threw |-> FALSE, written |-> Null, before |-> Null,
                 loaded |-> JsValue("null", 0, "")]

(* loadOfflineData(key): the parsed value of a non-empty stored text, null *)
(* for a missing or empty one, and null from the catch block when getItem  *)
(* or JSON.parse throws.                                                   *)
loadOfflineData(key) ==
    IF olAccess = "denied" THEN JsValue("null", 0, "")
    ELSE LET text == olStore[key]
         IN IF text = Null \/ text = "" THEN JsValue("null", 0, "")
            ELSE IF JSONparse(text).threw THEN JsValue("null", 0, "")
            ELSE JSONparse(text).val

(* saveOfflineData(key, value): true once setItem has returned, false from  *)
(* the catch block when JSON.stringify or setItem throws.  setItem stores  *)
(* the string of what it is given: 'undefined' for undefined.  Every       *)
(* statement is inside the try, so no exception leaves the function.       *)
SaveOfflineData(key, value) ==
    LET jsonData == JSONstringify(value)
        item == IF jsonData.defined THEN jsonData.text ELSE "undefined"
        setItemReturns == ~jsonData.threw /\ olAccess = "ok"
    IN /\ olStore' = IF setItemReturns THEN [olStore EXCEPT ![key] = item]
                      ELSE olStore
       /\ olLast' = [op |-> "save", key |-> key, data |-> value,
                     returned |-> setItemReturns, threw |-> FALSE,
                     written |-> IF setItemReturns THEN item ELSE Null,
                     before |-> olStore[key], loaded |-> loadOfflineData(key)]
       /\ UNCHANGED olAccess

(* A call of loadOfflineData(key) *)
LoadOfflineData(key) ==
    /\ olLast' = [op |-> "load", key |-> key, data |-> JsValue("null", 0, ""),
                  returned |-> FALSE, threw |-> FALSE, written |-> Null,
                  before |-> olStore[key], loaded |-> loadOfflineData(key)]
    /\ UNCHANGED <<olStore, olAccess>>

(* The storage fills up, is freed, or its access is denied or granted      *)
StorageAccessChanges ==
    /\ olAccess' \in {"ok", "full", "denied"} \ {olAccess}
    /\ olLast' = [olLast EXCEPT !.op = "access"]
    /\ UNCHANGED olStore

-----------------------------------------------------------------------------
(* Specifications, one per component *)

NextTheme ==
    \/ NewThemeManager /\ UNCHANGED notThemeVars
    \/ Reload /\ UNCHANGED notThemeVars
    \/ ToggleTheme /\ UNCHANGED notThemeVars
    \/ ToggleAutoMode /\ UNCHANGED notThemeVars
    \/ IntervalTick /\ UNCHANGED notThemeVars
    \/ TransitionEnd /\ UNCHANGED notThemeVars
    \/ AdvanceHour /\ UNCHANGED notThemeVars

InitSpecTheme ==
    InitTheme /\ PressAtRest /\ MenuAtRest /\ ScriptAtRest /\ FormatAtRest /\ WatcherAtRest
        /\ OfflineAtRest

SpecTheme == InitSpecTheme /\ [][NextTheme]_vars

NextPress ==
    \/ NewThemeManager /\ UNCHANGED pressVars /\ UNCHANGED notPressVars
    \/ MouseDown /\ UNCHANGED notPressVars
    \/ MouseUp /\ UNCHANGED notPressVars
    \/ MouseLeave /\ UNCHANGED notPressVars
    \/ TouchStart /\ UNCHANGED notPressVars
    \/ TouchEnd /\ UNCHANGED notPressVars
    \/ ClickToggle /\ UNCHANGED notPressVars
    \/ \E named \in BOOLEAN : LongPressFires(named) /\ UNCHANGED notPressVars
    \/ PressTick /\ UNCHANGED notPressVars

(* A page with working localStorage *)
InitSpecPress ==
    /\ InitTheme /\ lsReadOk /\ lsWriteOk
    /\ InitPress /\ MenuAtRest /\ ScriptAtRest /\ FormatAtRest /\ WatcherAtRest
        /\ OfflineAtRest

SpecPress == InitSpecPress /\ [][NextPress]_vars

NextPage ==
    \/ PageLoaded /\ UNCHANGED <<pressVars, scriptVars, watcherVars, offlineVars>>
    \/ NavbarArrives /\ UNCHANGED <<pressVars, scriptVars, watcherVars, offlineVars>>
    \/ NavbarMissing /\ UNCHANGED <<pressVars, scriptVars, watcherVars, offlineVars>>
    \/ MenuTimeout /\ UNCHANGED <<pressVars, scriptVars, watcherVars, offlineVars>>
    \/ ClickThemeToggle /\ UNCHANGED <<pressVars, scriptVars, watcherVars, offlineVars>>
    \/ \E t \in ClickTargets :
          Click(t) /\ UNCHANGED <<themeVars, pressVars, scriptVars, watcherVars, offlineVars>>
    \/ \E k \in Keys :
          KeyDown(k) /\ UNCHANGED <<themeVars, pressVars, scriptVars, watcherVars, offlineVars>>

InitSpecPage ==
    InitPage /\ PressAtRest /\ ScriptAtRest /\ FormatAtRest /\ WatcherAtRest
        /\ OfflineAtRest

SpecPage == InitSpecPage /\ [][NextPage]_vars

NextMenu ==
    \/ NavbarLoaded /\ UNCHANGED notMenuVars
    \/ NavbarFailed /\ UNCHANGED notMenuVars
    \/ NewMobileMenu /\ UNCHANGED notMenuVars
    \/ \E t \in ClickTargets : Click(t) /\ UNCHANGED notMenuVars
    \/ \E k \in Keys : KeyDown(k) /\ UNCHANGED notMenuVars

InitSpecMenu ==
    InitMenu /\ ThemeAtRest /\ PressAtRest /\ ScriptAtRest /\ FormatAtRest /\ WatcherAtRest
        /\ OfflineAtRest

SpecMenu == InitSpecMenu /\ [][NextMenu]_vars

NextScript ==
    \/ LoadCatalog /\ UNCHANGED notScriptVars
    \/ \E e \in EntryIds : ScanEntry(e) /\ UNCHANGED notScriptVars
    \/ RefreshMetadata /\ UNCHANGED notScriptVars
    \/ WriteCatalog /\ UNCHANGED notScriptVars

InitSpecScript ==
    InitScript /\ FormatAtRest /\ ThemeAtRest /\ PressAtRest /\ MenuAtRest /\ WatcherAtRest
        /\ OfflineAtRest

SpecScript == InitSpecScript /\ [][NextScript]_vars

NextFormat == FormatSize /\ UNCHANGED notScriptVars

InitSpecFormat ==
    InitFormat /\ ScriptAtRest /\ ThemeAtRest /\ PressAtRest /\ MenuAtRest /\ WatcherAtRest
        /\ OfflineAtRest

SpecFormat == InitSpecFormat /\ [][NextFormat]_vars

NextWatcher ==
    \/ \E kind \in WatchedNames : FileChange(kind) /\ UNCHANGED notWatcherVars
    \/ TimeoutFires /\ UNCHANGED notWatcherVars
    \/ \E i \in 1..MaxProcesses, error \in BOOLEAN, stdout \in TasklistOutputs :
          CheckResolves(i, error, stdout) /\ UNCHANGED notWatcherVars
    \/ RunExits /\ UNCHANGED notWatcherVars
    \/ SecondPasses /\ UNCHANGED notWatcherVars

InitSpecWatcher ==
    InitWatcher /\ ScriptAtRest /\ FormatAtRest /\ ThemeAtRest /\ PressAtRest /\ MenuAtRest
        /\ OfflineAtRest

SpecWatcher == InitSpecWatcher /\ [][NextWatcher]_vars

NextOffline ==
    \/ \E key \in OfflineKeys, value \in OfflineValues :
          SaveOfflineData(key, value) /\ UNCHANGED notOfflineVars
    \/ \E key \in OfflineKeys : LoadOfflineData(key) /\ UNCHANGED notOfflineVars
    \/ StorageAccessChanges /\ UNCHANGED notOfflineVars

InitSpecOffline ==
    InitOffline /\ ThemeAtRest /\ PressAtRest /\ MenuAtRest /\ ScriptAtRest
        /\ FormatAtRest /\ WatcherAtRest

SpecOffline == InitSpecOffline /\ [][NextOffline]_vars

-----------------------------------------------------------------------------
(* Properties of the theme manager *)

\* the hours of [18,24) and [0,6), written out
DarkHours == {18, 19, 20, 21, 22, 23, 0, 1, 2, 3, 4, 5}

\* the time-of-day theme the specification asks for at the current hour
HourTheme == IF hour \in DarkHours THEN "dark" ELSE "light"

(* C1: two consecutive toggleTheme calls leave the in-memory theme, the    *)
(* data-theme attribute and the value stored under 'theme' as they were    *)
(* before the first call.                                                  *)
C1_ToggleTwiceRestores ==
    toggleRun = 2 => ThemeState = before2

(* C2: when toggleAutoMode turns auto mode on, and at every polling tick   *)
(* while auto mode is on, the theme applied is dark exactly for the hours  *)
(* 18..23 and 0..5 and light for every other hour.                         *)
C2_AutoThemeFollowsHour ==
    (tmPc = "ready" /\ autoMode /\ lastOp \in {"toggleAutoMode", "tick"})
        => /\ theme = HourTheme
           /\ dataTheme = HourTheme
           /\ theme = "dark" <=> hour \in DarkHours
           /\ theme = "light" <=> hour \notin DarkHours

\* a polling tick at 18:00 has switched a light theme to dark
C2_Witness ==
    /\ lastOp = "tick" /\ autoMode /\ hour = 18
    /\ prev.theme = "light" /\ theme = "dark"

(* C6: after ThemeManager initialisation the in-memory theme and the       *)
(* data-theme attribute are each one of "light" and "dark", and so is the  *)
(* value stored under 'theme' when the key is present, whatever            *)
(* localStorage held before.                                               *)
C6_ThemeIsLightOrDark ==
    tmPc = "ready" => /\ theme \in {"light", "dark"}
                      /\ dataTheme \in {"light", "dark"}
                      /\ lsTheme \in {Null, "light", "dark"}

(* C8: with every localStorage read and write throwing, construction,      *)
(* toggleTheme and toggleAutoMode let no exception escape, and the theme   *)
(* in memory and the data-theme attribute change as with working storage:  *)
(* construction as over an empty storage, the toggles as a function of the *)
(* memory state alone, whatever the storage does.                          *)
C8_StorageFailureSilent ==
    LET broken == ~lsReadOk /\ ~lsWriteOk
        workingEmpty == /\ lsReadOk /\ lsWriteOk
                        /\ prev.lsTheme = Null /\ prev.lsAutoMode = Null
    IN
    /\ broken => ~escaped
    /\ (lastOp = "construct" /\ (broken \/ workingEmpty))
          => theme = HourTheme /\ dataTheme = theme /\ ~autoMode
    /\ lastOp = "toggleTheme"
          => /\ theme = (IF prev.theme = "dark" THEN "light" ELSE "dark")
             /\ dataTheme = theme
             /\ ~autoMode
    /\ lastOp = "toggleAutoMode"
          => /\ autoMode = ~prev.autoMode
             /\ autoMode => theme = HourTheme /\ dataTheme = theme
             /\ ~autoMode => theme = prev.theme /\ dataTheme = prev.dataTheme

\* auto mode has been switched on, changing the theme, over a broken storage
C8_Witness ==
    /\ ~lsReadOk /\ ~lsWriteOk
    /\ lastOp = "toggleAutoMode" /\ autoMode /\ theme # prev.theme
    /\ lsTheme = Null /\ ~escaped

(* C12: when a page is initialised with themeAutoMode stored as 'true',    *)
(* the theme the initialisation applies is the time-of-day theme of the    *)
(* current hour, whatever is stored under 'theme'.                         *)
C12_AutoModeInitFollowsHour ==
    (/\ lastOp \in {"construct", "reload"}
     /\ lsReadOk /\ lsWriteOk /\ prev.lsAutoMode = "true")
        => autoMode /\ theme = HourTheme /\ dataTheme = HourTheme

C16_SettingsSurviveReload ==
    (lastOp = "reload" /\ lsReadOk /\ lsWriteOk)
        => theme = prev.theme /\ autoMode = prev.autoMode

\* a page reloaded in auto mode, keeping a theme that is not the one of the
\* hour
C16_Witness ==
    /\ lastOp = "reload" /\ lsReadOk /\ lsWriteOk
    /\ autoMode /\ prev.autoMode /\ theme = prev.theme /\ theme # HourTheme
    /\ theme \in {"light", "dark"}

(* C17: after init the polling interval is live exactly when auto mode is  *)
(* on, the handle is set exactly then, and at most one interval is live.   *)
C17_PollingIffAutoMode ==
    tmPc = "ready" => /\ liveIntervals > 0 <=> autoMode
                      /\ autoCheckInterval # 0 <=> autoMode
                      /\ liveIntervals <= 1

\* auto mode switched off and on again: one interval is live
C17_Witness ==
    /\ lastOp = "toggleAutoMode" /\ autoMode /\ prev.lsAutoMode = "false"
    /\ liveIntervals = 1 /\ autoCheckInterval = 1

(* C13: starting with auto mode off, mousedown on the toggle, at least     *)
(* the long-press delay held, mouseup and the click delivered for the      *)
(* press end with auto mode on, in memory and stored as 'true', and with   *)
(* the time-of-day theme.                                                  *)
C13_LongPressEnablesAuto ==
    gesture = "clicked"
        => /\ autoMode /\ lsAutoMode = "true"
           /\ theme = HourTheme /\ dataTheme = HourTheme

(* C14: a long-press timer calls toggleAutoMode only when some press began *)
(* at least the long-press delay earlier and has not been released since,  *)
(* and every pending timer belongs to a press that is still down.          *)
C14_ShortPressNeverToggles ==
    /\ lastFire # "released"
    /\ \A d \in PendingDues :
          \E p \in Pointers :
             pressedAt[p] # NotPressed /\ pressedAt[p] + LongPressMs = d

-----------------------------------------------------------------------------
(* Properties of the mobile menu *)

(* C7: if .menu-button or .nav-links is missing when MobileMenu is         *)
(* constructed, construction does not throw, initialized stays false, no   *)
(* click or keydown listener is registered, and no later click or Escape   *)
(* changes the menu state, also once the navbar has arrived.               *)
C7_MissingElementsTolerated ==
    (menuPc = "constructed" /\ ~(mmButton /\ mmNavLinks))
        => /\ ~menuThrew
           /\ ~initialized
           /\ ~hButton /\ ~hOverlay /\ ~hDocClick /\ ~hDocKey
           /\ ~navActive /\ ~overlayActive
           /\ ariaExpanded \in {Null, "false"} /\ bodyOverflow = ""

\* constructed without the nav links; the navbar arrived later and the
\* button that came with it has been clicked
C7_Witness ==
    /\ menuPc = "constructed" /\ ~mmNavLinks /\ ~initialized
    /\ domMenuButton /\ domNavLinks /\ lastEvent = "button" /\ ~navActive

C20_NoDoubleToggle ==
    initialized
        => /\ lastEvent = "button"
                => /\ navActive = ~navBefore
                   /\ overlayActive = navActive
                   /\ ariaExpanded = (IF navActive THEN "true" ELSE "false")
           /\ (lastEvent = "overlay" /\ navBefore)
                => ~navActive /\ ~overlayActive /\ ariaExpanded = "false"

\* a click on the overlay has closed an open menu
C20_Witness ==
    /\ initialized /\ lastEvent = "overlay" /\ navBefore /\ ~navActive

(* C21: with the menu initialised from a closed state, after every         *)
(* sequence of clicks and key presses the four indicators of the open      *)
(* state agree: .nav-links is active iff the overlay is active iff the     *)
(* menu button has aria-expanded 'true' iff body overflow is 'hidden'.     *)
C21_IndicatorsAgree ==
    initialized
        => /\ overlayActive = navActive
           /\ (ariaExpanded = "true") = navActive
           /\ (bodyOverflow = "hidden") = navActive

\* a click on the button has opened the closed menu: all four indicators
\* show it open
C21_Witness ==
    /\ initialized /\ lastEvent = "button" /\ ~navBefore /\ navActive
    /\ overlayActive /\ ariaExpanded = "true" /\ bodyOverflow = "hidden"

(* C18: when the menu button, the nav links and the theme toggle come     *)
(* with the navbar, then once the fetch has inserted it and the 100 ms     *)
(* timeout has run, whichever came first, the mobile menu is initialised   *)
(* and the theme toggle has its click listener.                            *)
C18_SetupAfterNavbar ==
    (/\ tmPc = "ready" /\ menuPc = "constructed"
     /\ ~navbarPending /\ domMenuButton /\ domNavLinks /\ domToggle)
        => initialized /\ hButton /\ hToggle

-----------------------------------------------------------------------------
(* Properties of the maintenance script *)

\* the catalog the run started from, and the PDFs of the tree that are new
\* to it and fall under one of its subjects
StartCatalog == diskAtStart.catalog

NewMatched ==
    {e \in fsTree :
        /\ EndsWith(Entries[e].name, <<".", "p", "d", "f">>)
        /\ MaterialPath(e) \notin PathsOf(StartCatalog)
        /\ findSubjectByPath(FullPath(e), StartCatalog) # NoSubject}

Unmatched ==
    {e \in fsTree :
        /\ EndsWith(Entries[e].name, <<".", "p", "d", "f">>)
        /\ Entries[e].kind = "file"
        /\ findSubjectByPath(FullPath(e), StartCatalog) = NoSubject}

\* the materials of catalog c under the subject at place sp
MaterialsAt(c, sp) == c.semesters[sp[1]].branches[sp[2]].subjects[sp[3]].materials

SubjectPlaces == {<<1, 1, 1>>, <<1, 1, 2>>}

(* C3: starting from a catalog whose material paths are pairwise distinct, *)
(* after one run no two material records of the catalog have the same path *)
C3_NoDuplicatePaths ==
    scriptPc = "done"
        => \A p1, p2 \in Places(diskCatalog.catalog) :
              p1 # p2 => MaterialAt(diskCatalog.catalog, p1).path
                           # MaterialAt(diskCatalog.catalog, p2).path

(* C5: formatFileSize(0) is "0 Bytes" and formatFileSize(1024) is "1 KB" *)
C5_ZeroBytesAndOneKB ==
    fmtOut # Null => /\ fmtIn = 0 => fmtOut = "0 Bytes"
                     /\ fmtIn = 1024 => fmtOut = "1 KB"

\* formatFileSize has been applied to 1024
C5_Witness == fmtIn = 1024 /\ fmtOut = "1 KB"

(* C9: a PDF with no subject, or a material whose file cannot be stat'ed,  *)
(* does not stop the run: unless the catalog does not parse or the tree    *)
(* holds an entry statSync throws on, the run does not abort, and a        *)
(* finished run has added one record, under its subject and with the       *)
(* file's name as title, for every new PDF that matches a subject, has     *)
(* refreshed size and uploadDate of every material whose path names a      *)
(* file of the tree, has left the materials of missing files as they       *)
(* were, and has written the catalog.                                      *)
C9_ContinuesPastUnmatchedAndMissing ==
    LET final == diskCatalog.catalog IN
    /\ (diskAtStart.parses /\ \A e \in fsTree : Entries[e].kind # "broken")
          => scriptPc # "aborted"
    /\ scriptPc = "done" =>
          /\ writeCount = 1
          /\ diskCatalog = JsonFile(data)
          /\ \A sp \in SubjectPlaces :
                /\ Len(MaterialsAt(final, sp))
                     = Len(MaterialsAt(StartCatalog, sp))
                       + Cardinality({e \in NewMatched :
                            findSubjectByPath(FullPath(e), StartCatalog) = sp})
                /\ \A i \in 1 .. Len(MaterialsAt(StartCatalog, sp)) :
                      MaterialsAt(final, sp)[i].path
                        = MaterialsAt(StartCatalog, sp)[i].path
          /\ \A e \in NewMatched :
                \E pl \in Places(final) :
                   /\ <<pl[1], pl[2], pl[3]>>
                        = findSubjectByPath(FullPath(e), StartCatalog)
                   /\ pl[4] > Len(MaterialsAt(StartCatalog, <<pl[1], pl[2], pl[3]>>))
                   /\ MaterialAt(final, pl).title \o <<".", "p", "d", "f">> = Entries[e].name
          /\ \A pl \in Places(final) :
                LET m == MaterialAt(final, pl)
                    named == {e \in fsTree :
                                 /\ Entries[e].kind = "file"
                                 /\ \/ m.path = <<".", ".", "/">> \o RelativePath(e)
                                    \/ m.path = <<"/">> \o RelativePath(e)}
                IN \A e \in named :
                      /\ m.size = formatFileSize(Entries[e].size)
                      /\ m.uploadDate = Entries[e].mtime
          /\ \A pl \in Places(StartCatalog) :
                MaterialAt(StartCatalog, pl).path
                    = <<".", ".", "/", "d", "a", "t", "a", "/", "n", "o", "t", "e", "s", "/", "s", "e", "m", "e", "s", "t", "e", "r", "-", "1", "/", "c", "s", "e", "/", "d", "b", "m", "s", "/", "o", "l", "d", ".", "p", "d", "f">>
                  => MaterialAt(final, pl) = MaterialAt(StartCatalog, pl)

\* a finished run over a tree with a PDF of no subject and a catalog with a
\* material of a missing file, which added a record and refreshed another
C9_Witness ==
    /\ scriptPc = "done"
    /\ Unmatched # {}
    /\ \E pl \in Places(StartCatalog) : MaterialAt(StartCatalog, pl) = KnownDbmsOld
    /\ NewMatched # {}
    /\ \E pl \in Places(StartCatalog) :
          /\ MaterialAt(StartCatalog, pl) = KnownDbmsA
          /\ MaterialAt(diskCatalog.catalog, pl).size = "1 KB"
    /\ Cardinality(Places(diskCatalog.catalog)) > Cardinality(Places(StartCatalog))

(* C10: within one run the catalog file is written at most once and a      *)
(* finished run has written it exactly once, after the scan of every entry *)
(* and after the metadata refresh; until then, and in a run that aborts,   *)
(* the file on disk is as the run found it.                                *)
C10_WrittenOnceAtTheEnd ==
    /\ writeCount <= 1
    /\ scriptPc = "done" => writeCount = 1
    /\ writeCount = 1 => /\ scriptPc = "done"
                         /\ visited = fsTree
                         /\ refreshed
                         /\ diskCatalog = JsonFile(data)
    /\ scriptPc # "done" => diskCatalog = diskAtStart /\ writeCount = 0

\* a finished run whose single write changed the file
C10_Witness ==
    /\ scriptPc = "done" /\ writeCount = 1 /\ refreshed
    /\ visited = fsTree /\ fsTree # {}
    /\ diskCatalog # diskAtStart

\* what tells the record of one file from the record of another
Ident(m) == <<m.title, m.description, m.path>>

\* the PDF files of the tree
Pdfs == {e \in fsTree : /\ EndsWith(Entries[e].name, <<".", "p", "d", "f">>)
                        /\ Entries[e].kind = "file"}

\* the records the run added to the catalog on disk
NewPlaces ==
    {pl \in Places(diskCatalog.catalog) :
        pl[4] > Len(MaterialsAt(StartCatalog, <<pl[1], pl[2], pl[3]>>))}

\* the added records that describe the file of entry e
RecordsOf(e) ==
    {pl \in NewPlaces :
        Ident(MaterialAt(diskCatalog.catalog, pl)) = Ident(createMaterialFromFile(e))}

\* the subjects of the branch of place sp whose name matches e's folder
MatchingSubjects(e, sp) ==
    LET subjects == StartCatalog.semesters[sp[1]].branches[sp[2]].subjects
        folder == ToLowerCase(Entries[e].dir[Len(Entries[e].dir)])
    IN {k \in 1 .. Len(subjects) : SubjectMatches(subjects[k].name, folder)}

(* C11: after a run, every PDF that was not in the catalog and has a       *)
(* matching subject has exactly one new record, under the first matching   *)
(* subject of its semester and branch and under no other; every other PDF  *)
(* has no new record, and the run added no other record.                   *)
C11_MergedExactlyOnce ==
    scriptPc = "done" =>
        /\ \A e \in Pdfs :
              IF e \in NewMatched
              THEN /\ Cardinality(RecordsOf(e)) = 1
                   /\ \A pl \in RecordsOf(e) :
                         LET sp == findSubjectByPath(FullPath(e), StartCatalog) IN
                         /\ <<pl[1], pl[2]>> = <<sp[1], sp[2]>>
                         /\ pl[3] \in MatchingSubjects(e, sp)
                         /\ \A k \in MatchingSubjects(e, sp) : pl[3] <= k
              ELSE RecordsOf(e) = {}
        /\ Cardinality(NewPlaces) = Cardinality(NewMatched)

\* a finished run over a tree with a new PDF whose folder matches both
\* subjects, added to the first, and a PDF of no subject
C11_Witness ==
    /\ scriptPc = "done"
    /\ \E e \in NewMatched :
          /\ Cardinality(MatchingSubjects(e, <<1, 1, 1>>)) = 2
          /\ \E pl \in RecordsOf(e) : pl[3] = 1
    /\ Unmatched # {}

-----------------------------------------------------------------------------
(* Properties of the watcher *)

(* C4: at no time are two runs of the metadata update script in progress   *)
(* at once.                                                                *)
C4_OneRunAtATime == runsRunning <= 1

(* C22: for every burst of PDF changes, each less than 2 seconds after the *)
(* one before it, at most one app-running check and at most one metadata   *)
(* update is launched, and neither earlier than 2 seconds after the last   *)
(* change of the burst.                                                    *)
C22_BurstDebounced ==
    \A b \in DOMAIN bursts :
        /\ bursts[b].checks <= 1
        /\ bursts[b].runs <= 1
        /\ bursts[b].checkAt # NotLaunched
                => bursts[b].checkAt >= bursts[b].last + DebounceSeconds
        /\ bursts[b].runAt # NotLaunched
                => bursts[b].runAt >= bursts[b].last + DebounceSeconds

\* a burst of two or more PDF changes, the last later than the first, has
\* had its check and its update
C22_Witness ==
    \E b \in DOMAIN bursts :
        /\ bursts[b].several /\ bursts[b].last > 0
        /\ bursts[b].checks = 1 /\ bursts[b].runs = 1

(* C23: a metadata update is launched only by an app-running check that    *)
(* resolved true (tasklist gave no error and its output named a python     *)
(* process), made for a burst of PDF changes no earlier than 2 seconds     *)
(* after its last change; a change of a file that is no PDF sets no timer  *)
(* and launches nothing, and a check that fails or finds no python process *)
(* launches no update.                                                     *)
C23_UpdateOnlyInSync ==
    [][/\ runsRunning' > runsRunning
            => /\ lastStep'.step = "resolved"
               /\ ~lastStep'.error
               /\ lastStep'.stdout # {}
               /\ checksRunning' = checksRunning - 1
       /\ \A b \in DOMAIN bursts' :
            /\ bursts'[b].runs <= bursts'[b].checks
            /\ bursts'[b].runAt # NotLaunched
                    => /\ bursts'[b].checkAt # NotLaunched
                       /\ bursts'[b].runAt >= bursts'[b].checkAt
                       /\ bursts'[b].checkAt
                            >= bursts'[b].last + DebounceSeconds
       /\ lastStep'.step \in {"other", "null"}
            => UNCHANGED <<updateTimeout, timerPending, timerDue,
                           checksRunning, runsRunning, bursts, checkOf>>
       /\ (lastStep'.step = "resolved"
                /\ (lastStep'.error \/ lastStep'.stdout = {}))
            => UNCHANGED <<runsRunning, bursts>>]_vars

\* tasklist named a python process and the update of the first burst was
\* launched
C23_Witness ==
    /\ lastStep.step = "resolved" /\ ~lastStep.error
    /\ "python.exe" \in lastStep.stdout
    /\ runsRunning = 1 /\ Len(bursts) = 1 /\ bursts[1].runs = 1

-----------------------------------------------------------------------------
(* Properties of the offline cache *)

(* C24: saveOfflineData never throws; it returns false exactly when the    *)
(* value was not stored, that is unless the call has put the JSON text of  *)
(* the value under the key; and after a false return the text stored under *)
(* the key is the one stored before, and loadOfflineData returns what it   *)
(* returned before.                                                        *)
C24_FailedSaveHarmless ==
    olLast.op = "save"
        => LET jsonData == JSONstringify(olLast.data)
               stored == /\ ~jsonData.threw /\ jsonData.defined
                         /\ olLast.written = jsonData.text
                         /\ olStore[olLast.key] = jsonData.text
           IN /\ ~olLast.threw
              /\ olLast.returned = stored
              /\ ~olLast.returned
                    => /\ olStore[olLast.key] = olLast.before
                       /\ loadOfflineData(olLast.key) = olLast.loaded

====
